---- MODULE Spec2Model ----
(***************************************************************************)
(* Model of the MBTA Red Line tracker's response-normalisation layer       *)
(* (Shiny App/api/parsers.py): time normalisation, status derivation and   *)
(* the record flatteners.                                                  *)
(*                                                                         *)
(* Conventions                                                             *)
(*   - A parsed datetime is an integer number of seconds since             *)
(*     2024-01-01T00:00:00Z; Python's None is the integer None.            *)
(*   - A JSON string holding a timestamp is a record [tz, day, sec, off]:  *)
(*     its wall-clock reading (day, sec) and the way its zone is written.  *)
(*   - A call that can raise returns a record with a field st that is      *)
(*     "ok" or "raised"; a result variable that no call has set is Unset.  *)
(***************************************************************************)
EXTENDS Integers, Sequences, FiniteSets, TLC

VARIABLES
    scheduled_dt,            \* _derive_status: argument scheduled_dt
    predicted_dt,            \* _derive_status: argument predicted_dt
    threshold_minutes,       \* _derive_status: argument threshold_minutes
    status,                  \* _derive_status: returned value ("" before the call)
    predictions_response,    \* payload of fetch_predictions()
    vehicles_response,       \* payload of fetch_vehicles()
    alerts_response,         \* payload of fetch_alerts()
    shapes_response,         \* payload of fetch_shapes()
    now,                     \* datetime.now(timezone.utc) as read by a flattener
    departures_df,           \* result of parse_departures
    arrivals_raw_df,         \* result of _parse_arrivals_raw
    near_term_df,            \* result of parse_near_term_arrivals
    future_df,               \* result of parse_future_arrivals
    next_stop,               \* result of _next_stop_by_vehicle
    alerts_df,               \* result of parse_alerts
    vehicles_list,           \* result of parse_vehicles_for_map
    enriched_list,           \* result of parse_vehicles_for_map_enriched
    shapes_list,             \* result of parse_red_line_shape
    merged_shape,            \* result of parse_route_shapes_merged
    iso_s,                   \* _parse_iso: the argument s of each of two calls
    iso_dt,                  \* _parse_iso: what each of the two calls returned
    MBTA_API_KEY,            \* os.getenv("MBTA_API_KEY"): "unset", "empty" or "set"
    http_log,                \* GETs issued by the call or handler run in progress
    http_met,                \* what requests.get met on the last _request call
    request_ret,             \* what the last _request call returned
    OLLAMA_API_KEY,          \* os.getenv("OLLAMA_API_KEY"): "unset", "empty" or "set"
    reporter_pc,             \* data_reporter.main(): where the run is
    reporter_resps,          \* main(): the four MBTA responses, <<>> before the fetch
    report_text,             \* main(): what query_ollama_cloud returned
    reporter_events,         \* main(): the GETs, the POST and the save, in order
    refresh,                 \* input.refresh: clicks of "Run API query"
    refresh_interval_min,    \* input.refresh_interval_min, in tenths of a minute
    map_routes,              \* input.map_routes: the selected display routes
    changes,                 \* how often the user changed the interval and the layers
    api_error,               \* reactive value api_error
    df_alerts,               \* reactive value df_alerts
    df_departures,           \* reactive value df_departures
    df_near_term,            \* reactive value df_near_term
    df_future,               \* reactive value df_future
    vehicles_map,            \* reactive value vehicles_map
    shapes_by_route,         \* reactive value shapes_by_route
    last_api_call_time,      \* reactive value last_api_call_time
    skip_next_timer_refresh, \* reactive value skip_next_timer_refresh
    session,                 \* "open", or "closed" after an effect raised
    pending,                 \* the invalidated effects waiting for the flush
    deps,                    \* per effect, the reactive sources its last run read
    invalidate_later,        \* delay of the armed reactive.invalidate_later, or None
    cause,                   \* per effect, what invalidated it last
    cycle,                   \* number of _do_refresh runs so far
    cycle_errors,            \* the error messages of the last cycle's four responses
    click_trace,             \* what has run since the last click
    skip_origin,             \* which click set skip_next_timer_refresh
    last_timer_run,          \* what the last run of _auto_refresh_timer did
    last_layers_run          \* what the last run of _fetch_extra_map_layers did

statusVars == <<scheduled_dt, predicted_dt, threshold_minutes, status>>
inputVars ==
    <<predictions_response, vehicles_response, alerts_response, shapes_response, now>>
otherResults ==
    <<alerts_df, vehicles_list, enriched_list, shapes_list, merged_shape>>
resultVars ==
    <<departures_df, arrivals_raw_df, near_term_df, future_df, next_stop, otherResults>>
isoVars == <<iso_s, iso_dt>>
parserVars == <<statusVars, inputVars, resultVars, isoVars>>
requestVars == <<http_met, request_ret>>
clientVars == <<MBTA_API_KEY, http_log, requestVars>>
reporterVars ==
    <<OLLAMA_API_KEY, reporter_pc, reporter_resps, report_text, reporter_events>>
inputValues == <<refresh, refresh_interval_min, map_routes, changes>>
snapshotVars ==
    <<api_error, df_alerts, df_departures, df_near_term, df_future, vehicles_map,
      shapes_by_route, last_api_call_time>>
reactiveVars == <<session, pending, deps, invalidate_later, cause>>
traceVars ==
    <<cycle, cycle_errors, click_trace, skip_origin, last_timer_run, last_layers_run>>
appVars ==
    <<inputValues, snapshotVars, skip_next_timer_refresh, reactiveVars, traceVars>>
outsideVars == <<clientVars, reporterVars, appVars>>
vars == <<parserVars, outsideVars>>

----------------------------------------------------------------------------
(* Basic values *)

\* Python's None where a datetime is expected
None == -1

\* Python's None where a string id is expected
NoId == ""

Min2(a, b) == IF a <= b THEN a ELSE b

\* A result variable no call has written yet
Unset == [st |-> "unset", exc |-> "", rows |-> <<>>]

Ok(rows) == [st |-> "ok", exc |-> "", rows |-> rows]

Raised(exc) == [st |-> "raised", exc |-> exc, rows |-> <<>>]

----------------------------------------------------------------------------
(* Status Deriver *)

\* timedelta.total_seconds() of (predicted_dt - scheduled_dt)
delay_sec(scheduled, predicted) == predicted - scheduled

_derive_status_strict(scheduled, predicted, threshold) ==
    IF predicted = None THEN "Cancelled"
    ELSE IF scheduled = None THEN "On Time"
    ELSE IF delay_sec(scheduled, predicted) < threshold * 60 THEN "On Time"
    ELSE "Delayed"

_derive_status_swapped(scheduled, predicted, threshold) ==
    IF scheduled = None THEN "On Time"
    ELSE IF predicted = None THEN "Cancelled"
    ELSE IF delay_sec(scheduled, predicted) <= threshold * 60 THEN "On Time"
    ELSE "Delayed"

_derive_status_sched_first(scheduled, predicted, threshold) ==
    IF scheduled = None THEN "Cancelled"
    ELSE IF predicted = None THEN "Cancelled"
    ELSE IF delay_sec(scheduled, predicted) <= threshold * 60 THEN "On Time"
    ELSE "Delayed"

_derive_status(scheduled, predicted, threshold) ==
    IF predicted = None THEN "Cancelled"
    ELSE IF scheduled = None THEN "On Time"
    ELSE IF delay_sec(scheduled, predicted) <= threshold * 60 THEN "On Time"
    ELSE "Delayed"

----------------------------------------------------------------------------
(* JSON values *)

\* A JSON "error" field: absent, false, true, or a non-empty text
ErrorValues == {"absent", "false", "true", "text"}

\* Python truthiness of response.get("error")
Truthy(e) == e \in {"true", "text"}

\* A timestamp string as it appears in a payload.  tz tells how the zone is
\* written: "Z", "offset" (off seconds east of UTC), "naive" (no zone);
\* "none" is JSON null or an absent key, "empty" is "", "bad" is a string
\* that is not ISO-8601.
NoneStr == [tz |-> "none", day |-> 0, sec |-> 0, off |-> 0]

EmptyStr == [tz |-> "empty", day |-> 0, sec |-> 0, off |-> 0]

BadStr == [tz |-> "bad", day |-> 0, sec |-> 0, off |-> 0]

ZStr(d, t) == [tz |-> "Z", day |-> d, sec |-> t, off |-> 0]

OffsetStr(d, t, o) == [tz |-> "offset", day |-> d, sec |-> t, off |-> o]

NaiveStr(d, t) == [tz |-> "naive", day |-> d, sec |-> t, off |-> 0]

\* Python truthiness of a string-or-None
StrTruthy(s) == s.tz \notin {"none", "empty"}

\* a or b on two strings
StrOr(a, b) == IF StrTruthy(a) THEN a ELSE b

\* a or b on two datetimes (a datetime is always truthy, None never)
DtOr(a, b) == IF a # None THEN a ELSE b

\* A direction_id attribute: an int, a string of digits, or null
IntDir(n) == [ty |-> "int", v |-> n]

StrDir(n) == [ty |-> "str", v |-> n]

NoDir == [ty |-> "none", v |-> 0]

----------------------------------------------------------------------------
(* Time Normalizer *)

SecondsPerDay == 86400

\* UTC offset of America/New_York on a day of 2024 (day 0 is January 1):
\* daylight time from March 10 (day 69) until November 3 (day 307)
MBTA_TZ(day) == IF day >= 69 /\ day < 307 THEN -14400 ELSE -18000

\* What a call of _parse_iso gave: nothing yet, a value (a datetime or
\* None), or an exception
UnsetDt == [st |-> "unset", dt |-> None]

OkDt(dt) == [st |-> "ok", dt |-> dt]

RaisedDt == [st |-> "raised", dt |-> None]

\* datetime.fromisoformat raises ValueError on a string that is not ISO
_parse_iso_raises(s) == s.tz = "bad"

_parse_iso_wall_clock(s) ==
    IF ~StrTruthy(s) THEN None
    ELSE IF s.tz = "naive" THEN s.day * SecondsPerDay + s.sec - MBTA_TZ(s.day)
    ELSE s.day * SecondsPerDay + s.sec

_parse_iso_naive_as_utc(s) ==
    IF ~StrTruthy(s) THEN None
    ELSE IF s.tz = "naive" THEN s.day * SecondsPerDay + s.sec
    ELSE s.day * SecondsPerDay + s.sec - s.off

_parse_iso(s) ==
    IF ~StrTruthy(s) THEN None
    ELSE IF s.tz = "naive" THEN s.day * SecondsPerDay + s.sec - MBTA_TZ(s.day)
    ELSE s.day * SecondsPerDay + s.sec - s.off

----------------------------------------------------------------------------
(* Resource Resolver *)

\* Attributes of an included resource; a key the resource lacks is NoneStr / ""
NoAttrs ==
    [departure_time |-> NoneStr, departure |-> NoneStr,
     arrival_time |-> NoneStr, arrival |-> NoneStr,
     headsign |-> "", name |-> "", direction_id |-> [ty |-> "none", v |-> 0]]

Resource(type, id, attrs) == [type |-> type, id |-> id, attributes |-> attrs]

\* included.get(key) is None
Missing == Resource("", "", NoAttrs)

\* The {} the flatteners use when a relationship carries no id
EmptyDict == Resource("{}", "", NoAttrs)

\* lookup[(type, id)] = the last resource of the list with that type and id
_build_included_lookup(included_list) ==
    [key \in {<<included_list[i].type, included_list[i].id>> :
                 i \in 1..Len(included_list)} |->
        LET hits == {i \in 1..Len(included_list) :
                        <<included_list[i].type, included_list[i].id>> = key}
        IN  included_list[CHOOSE i \in hits : \A j \in hits : j <= i]]

\* included.get((type, id))
Get(lookup, type, id) ==
    IF <<type, id>> \in DOMAIN lookup THEN lookup[<<type, id>>] ELSE Missing

\* included.get((type, id)) if id else {}
Deref(lookup, type, id) ==
    IF id # NoId THEN Get(lookup, type, id) ELSE EmptyDict

----------------------------------------------------------------------------
(* Record Flattener: departures *)

\* One element of a predictions payload's data array.  schedule, trip,
\* vehicle and stop are the ids its relationships carry (NoId when the
\* relationship is absent, null, or has null data).
Prediction(dir, dep, arr, schedule, trip, vehicle, stop) ==
    [direction_id |-> dir, departure_time |-> dep, arrival_time |-> arr,
     schedule |-> schedule, trip |-> trip, vehicle |-> vehicle, stop |-> stop]

\* int(direction_id) if str(direction_id).isdigit() else direction_id
NormaliseDirection(d) == IF d.ty = "str" THEN IntDir(d.v) ELSE d

\* direction_id == n after normalisation
DirectionIs(d, n) == NormaliseDirection(d) = IntDir(n)

\* The exception one prediction makes the departures loop raise ("" if none),
\* in the order the loop body evaluates
DepartureItemExc(item, included) ==
    LET schedule == Deref(included, "schedule", item.schedule)
        trip == Deref(included, "trip", item.trip)
        sched_attrs == schedule.attributes
        sched_dep == StrOr(sched_attrs.departure_time, sched_attrs.departure)
    IN  IF _parse_iso_raises(item.departure_time) THEN "ValueError"
        ELSE IF _parse_iso_raises(item.arrival_time) THEN "ValueError"
        ELSE IF schedule = Missing THEN "AttributeError"
        ELSE IF trip = Missing THEN "AttributeError"
        ELSE IF _parse_iso_raises(sched_dep) THEN "ValueError"
        ELSE ""

\* if direction_id == 0 and (pred_dep or sched_dep or pred_arr)
DepartureItemEmits(item, included) ==
    LET sched_attrs == Deref(included, "schedule", item.schedule).attributes
        sched_dep == StrOr(sched_attrs.departure_time, sched_attrs.departure)
    IN  /\ DirectionIs(item.direction_id, 0)
        /\ \/ StrTruthy(item.departure_time)
           \/ StrTruthy(sched_dep)
           \/ StrTruthy(item.arrival_time)

\* The row one prediction appends.  src is the position of the prediction in
\* the payload (the DataFrame's index label before reset_index).
DepartureRow(item, included, k) ==
    LET sched_attrs == Deref(included, "schedule", item.schedule).attributes
        trip_attrs == Deref(included, "trip", item.trip).attributes
        sched_dep == StrOr(sched_attrs.departure_time, sched_attrs.departure)
        pred_dep_dt == _parse_iso(item.departure_time)
        pred_arr_dt == _parse_iso(item.arrival_time)
        sched_dep_dt == _parse_iso(sched_dep)
    IN  [Destination |-> trip_attrs.headsign,
         Scheduled |-> sched_dep_dt,
         Actual |-> DtOr(pred_dep_dt, pred_arr_dt),
         Status |-> _derive_status(sched_dep_dt, DtOr(pred_dep_dt, pred_arr_dt), 2),
         _sort_time |-> DtOr(DtOr(pred_dep_dt, pred_arr_dt), sched_dep_dt),
         src |-> k]

\* Rows appended by the first n predictions, in payload order
RECURSIVE DepartureRows(_, _, _)
DepartureRows(data, included, n) ==
    IF n = 0 THEN <<>>
    ELSE LET rest == DepartureRows(data, included, n - 1)
         IN  IF DepartureItemEmits(data[n], included)
             THEN Append(rest, DepartureRow(data[n], included, n))
             ELSE rest

\* Exception raised while processing the first n predictions ("" if none)
RECURSIVE DepartureExc(_, _, _)
DepartureExc(data, included, n) ==
    IF n = 0 THEN ""
    ELSE LET before == DepartureExc(data, included, n - 1)
         IN  IF before # "" THEN before
             ELSE DepartureItemExc(data[n], included)

\* Orders in which n rows can be arranged
Perms(n) ==
    {p \in [1..n -> 1..n] : \A i, j \in 1..n : i # j => p[i] # p[j]}

\* df.sort_values(by="_sort_time", ascending=True, na_position="last") with
\* the default kind="quicksort": rows with a time ascending, then the rows
\* without a time in their input order.  The default kind is not a stable
\* sort, so rows with equal times come out in any order.
sort_values(rows) ==
    {[i \in 1..Len(rows) |-> rows[p[i]]] : p \in
        {p \in Perms(Len(rows)) :
            \A i, j \in 1..Len(rows) : i < j =>
                LET a == rows[p[i]]._sort_time
                    b == rows[p[j]]._sort_time
                IN  \/ a # None /\ b = None
                    \/ a = None /\ b = None /\ p[i] < p[j]
                    \/ a # None /\ b # None /\ a <= b}}

\* df.drop(columns=["_sort_time"]) on one row
DropSortTime(row) ==
    [Destination |-> row.Destination, Scheduled |-> row.Scheduled,
     Actual |-> row.Actual, Status |-> row.Status, src |-> row.src]

DropSortTimeAll(rows) == [i \in 1..Len(rows) |-> DropSortTime(rows[i])]

\* The values parse_departures can return (or the exception it raises)
parse_departures(response) ==
    IF Truthy(response.error) THEN {Ok(<<>>)}
    ELSE LET included == _build_included_lookup(response.included)
             n == Len(response.data)
         IN  IF DepartureExc(response.data, included, n) # ""
             THEN {Raised(DepartureExc(response.data, included, n))}
             ELSE {Ok(DropSortTimeAll(rows)) : rows \in
                      sort_values(DepartureRows(response.data, included, n))}

----------------------------------------------------------------------------
(* Record Flattener: arrivals *)

\* The exception one prediction makes the arrivals loop raise ("" if none)
ArrivalItemExc(item, included) ==
    LET schedule == Deref(included, "schedule", item.schedule)
        sched_attrs == schedule.attributes
        sched_arr == StrOr(sched_attrs.arrival_time, sched_attrs.arrival)
    IN  IF _parse_iso_raises(item.arrival_time) THEN "ValueError"
        ELSE IF _parse_iso_raises(item.departure_time) THEN "ValueError"
        ELSE IF schedule = Missing THEN "AttributeError"
        ELSE IF _parse_iso_raises(sched_arr) THEN "ValueError"
        ELSE ""

\* if direction_id == 1 and (pred_arr or sched_arr or pred_dep)
ArrivalItemEmits(item, included) ==
    LET sched_attrs == Deref(included, "schedule", item.schedule).attributes
        sched_arr == StrOr(sched_attrs.arrival_time, sched_attrs.arrival)
    IN  /\ DirectionIs(item.direction_id, 1)
        /\ \/ StrTruthy(item.arrival_time)
           \/ StrTruthy(sched_arr)
           \/ StrTruthy(item.departure_time)

\* The row one prediction appends (src: its position in the payload)
ArrivalRow(item, included, k) ==
    LET sched_attrs == Deref(included, "schedule", item.schedule).attributes
        sched_arr == StrOr(sched_attrs.arrival_time, sched_attrs.arrival)
        pred_arr_dt == _parse_iso(item.arrival_time)
        pred_dep_dt == _parse_iso(item.departure_time)
        sched_arr_dt == _parse_iso(sched_arr)
    IN  [vehicle_id |-> item.vehicle,
         Scheduled |-> sched_arr_dt,
         Actual |-> DtOr(pred_arr_dt, pred_dep_dt),
         Status |-> _derive_status(sched_arr_dt, DtOr(pred_arr_dt, pred_dep_dt), 2),
         arrival_time_dt |-> DtOr(DtOr(pred_arr_dt, sched_arr_dt), pred_dep_dt),
         src |-> k]

RECURSIVE ArrivalRows(_, _, _)
ArrivalRows(data, included, n) ==
    IF n = 0 THEN <<>>
    ELSE LET rest == ArrivalRows(data, included, n - 1)
         IN  IF ArrivalItemEmits(data[n], included)
             THEN Append(rest, ArrivalRow(data[n], included, n))
             ELSE rest

RECURSIVE ArrivalExc(_, _, _)
ArrivalExc(data, included, n) ==
    IF n = 0 THEN ""
    ELSE LET before == ArrivalExc(data, included, n - 1)
         IN  IF before # "" THEN before
             ELSE ArrivalItemExc(data[n], included)

_parse_arrivals_raw(response) ==
    IF Truthy(response.error) THEN Ok(<<>>)
    ELSE LET included == _build_included_lookup(response.included)
             n == Len(response.data)
         IN  IF ArrivalExc(response.data, included, n) # ""
             THEN Raised(ArrivalExc(response.data, included, n))
             ELSE Ok(ArrivalRows(response.data, included, n))

\* One element of a vehicles payload's data array.  stop and trip are the
\* ids its relationships carry (NoId when the relationship is absent or has
\* null data).  A coordinate is a JSON value [k, v]: k is "none", "num",
\* "numstr" (a string that float() accepts) or "bad".
Vehicle(id, stop, trip, lat, lon, bearing, position) ==
    [id |-> id, stop |-> stop, trip |-> trip,
     latitude |-> lat, longitude |-> lon, bearing |-> bearing,
     position |-> position]

\* current_stop_name of one vehicle
VehicleStopName(item, included) ==
    LET stop_res == Get(included, "stop", item.stop)
    IN  IF item.stop # NoId /\ stop_res # Missing
        THEN IF stop_res.attributes.name # "" THEN stop_res.attributes.name
             ELSE item.stop
        ELSE "Unknown"

_vehicle_to_stop_map_no_error_check(response) ==
    LET included == _build_included_lookup(response.included)
        data == response.data
    IN  [vid \in {data[i].id : i \in 1..Len(data)} |->
             LET hits == {i \in 1..Len(data) : data[i].id = vid}
                 last == CHOOSE i \in hits : \A j \in hits : j <= i
             IN  VehicleStopName(data[last], included)]

\* vehicle_id -> current stop name; the last vehicle with an id wins
_vehicle_to_stop_map(response) ==
    IF Truthy(response.error) THEN <<>>
    ELSE LET included == _build_included_lookup(response.included)
             data == response.data
         IN  [vid \in {data[i].id : i \in 1..Len(data)} |->
                  LET hits == {i \in 1..Len(data) : data[i].id = vid}
                      last == CHOOSE i \in hits : \A j \in hits : j <= i
                  IN  VehicleStopName(data[last], included)]

\* vehicle_to_stop.get(v, "Unknown") if pd.notna(v) else "Unknown"
CurrentStop(vehicle_to_stop, v) ==
    IF v # NoId /\ v \in DOMAIN vehicle_to_stop THEN vehicle_to_stop[v]
    ELSE "Unknown"

\* A row of the near-term / future tables
OutRow(row, vehicle_to_stop) ==
    [CurrentStop |-> CurrentStop(vehicle_to_stop, row.vehicle_id),
     Scheduled |-> row.Scheduled, Actual |-> row.Actual,
     Status |-> row.Status, src |-> row.src]

\* raw.loc[mask, columns] with mask = (arrival_dt >= now) & (arrival_dt <= end)
RECURSIVE WindowRows(_, _, _, _, _)
WindowRows(rows, vehicle_to_stop, lo, hi, n) ==
    IF n = 0 THEN <<>>
    ELSE LET rest == WindowRows(rows, vehicle_to_stop, lo, hi, n - 1)
             t == rows[n].arrival_time_dt
         IN  IF t # None /\ t >= lo /\ t <= hi
             THEN Append(rest, OutRow(rows[n], vehicle_to_stop))
             ELSE rest

\* out if not out.empty else _empty_arrivals_df(); empty when raw is empty
parse_near_term_arrivals_exclusive(pred_response, veh_response, t) ==
    LET raw == _parse_arrivals_raw(pred_response)
        vts == _vehicle_to_stop_map(veh_response)
    IN  IF raw.st = "raised" THEN raw
        ELSE IF raw.rows = <<>> THEN Ok(<<>>)
        ELSE Ok(WindowRows(raw.rows, vts, t, t + 10 * 60 - 1, Len(raw.rows)))

parse_near_term_arrivals(pred_response, veh_response, t) ==
    LET raw == _parse_arrivals_raw(pred_response)
        vts == _vehicle_to_stop_map(veh_response)
    IN  IF raw.st = "raised" THEN raw
        ELSE IF raw.rows = <<>> THEN Ok(<<>>)
        ELSE Ok(WindowRows(raw.rows, vts, t, t + 10 * 60, Len(raw.rows)))

parse_future_arrivals_after_near(pred_response, veh_response, t) ==
    LET raw == _parse_arrivals_raw(pred_response)
        vts == _vehicle_to_stop_map(veh_response)
    IN  IF raw.st = "raised" THEN raw
        ELSE IF raw.rows = <<>> THEN Ok(<<>>)
        ELSE Ok(WindowRows(raw.rows, vts, t + 10 * 60 + 1, t + 60 * 60,
                           Len(raw.rows)))

parse_future_arrivals(pred_response, veh_response, t) ==
    LET raw == _parse_arrivals_raw(pred_response)
        vts == _vehicle_to_stop_map(veh_response)
    IN  IF raw.st = "raised" THEN raw
        ELSE IF raw.rows = <<>> THEN Ok(<<>>)
        ELSE Ok(WindowRows(raw.rows, vts, t, t + 60 * 60, Len(raw.rows)))

----------------------------------------------------------------------------
(* Vehicle-Next-Stop Merger *)

\* minutes_behind: None, or the signed delay (kept in seconds: the code's
\* value is sec / 60.0)
NoDelay == [has |-> FALSE, sec |-> 0]

Delay(sec) == [has |-> TRUE, sec |-> sec]

NextStopItem_last_wins(by_vehicle, item, included, t) ==
    LET vehicle_id == item.vehicle
        stop_res == Get(included, "stop", item.stop)
        stop_name == IF item.stop # NoId /\ stop_res # Missing
                     THEN IF stop_res.attributes.name # ""
                          THEN stop_res.attributes.name ELSE item.stop
                     ELSE "Unknown"
        pred_str == StrOr(item.arrival_time, item.departure_time)
        pred_dt == _parse_iso(pred_str)
        schedule == Deref(included, "schedule", item.schedule)
        a == schedule.attributes
        sched_str == StrOr(StrOr(StrOr(a.arrival_time, a.arrival),
                                 a.departure_time), a.departure)
        sched_dt == _parse_iso(sched_str)
        entry == [stop_name |-> stop_name, expected_time |-> pred_dt,
                  minutes_behind |-> IF sched_dt # None
                                     THEN Delay(pred_dt - sched_dt)
                                     ELSE NoDelay]
    IN  IF vehicle_id = NoId THEN [exc |-> "", map |-> by_vehicle]
        ELSE IF _parse_iso_raises(pred_str)
        THEN [exc |-> "ValueError", map |-> by_vehicle]
        ELSE IF pred_dt = None \/ pred_dt < t THEN [exc |-> "", map |-> by_vehicle]
        ELSE IF schedule = Missing
        THEN [exc |-> "AttributeError", map |-> by_vehicle]
        ELSE IF _parse_iso_raises(sched_str)
        THEN [exc |-> "ValueError", map |-> by_vehicle]
        ELSE IF \/ vehicle_id \notin DOMAIN by_vehicle
                \/ by_vehicle[vehicle_id].expected_time >= pred_dt
        THEN [exc |-> "",
              map |-> [v \in DOMAIN by_vehicle \cup {vehicle_id} |->
                          IF v = vehicle_id THEN entry ELSE by_vehicle[v]]]
        ELSE [exc |-> "", map |-> by_vehicle]

\* What one prediction does to by_vehicle; exc is the exception it raises
NextStopItem(by_vehicle, item, included, t) ==
    LET vehicle_id == item.vehicle
        stop_res == Get(included, "stop", item.stop)
        stop_name == IF item.stop # NoId /\ stop_res # Missing
                     THEN IF stop_res.attributes.name # ""
                          THEN stop_res.attributes.name ELSE item.stop
                     ELSE "Unknown"
        pred_str == StrOr(item.arrival_time, item.departure_time)
        pred_dt == _parse_iso(pred_str)
        schedule == Deref(included, "schedule", item.schedule)
        a == schedule.attributes
        sched_str == StrOr(StrOr(StrOr(a.arrival_time, a.arrival),
                                 a.departure_time), a.departure)
        sched_dt == _parse_iso(sched_str)
        entry == [stop_name |-> stop_name, expected_time |-> pred_dt,
                  minutes_behind |-> IF sched_dt # None
                                     THEN Delay(pred_dt - sched_dt)
                                     ELSE NoDelay]
    IN  IF vehicle_id = NoId THEN [exc |-> "", map |-> by_vehicle]
        ELSE IF _parse_iso_raises(pred_str)
        THEN [exc |-> "ValueError", map |-> by_vehicle]
        ELSE IF pred_dt = None \/ pred_dt < t THEN [exc |-> "", map |-> by_vehicle]
        ELSE IF schedule = Missing
        THEN [exc |-> "AttributeError", map |-> by_vehicle]
        ELSE IF _parse_iso_raises(sched_str)
        THEN [exc |-> "ValueError", map |-> by_vehicle]
        ELSE IF \/ vehicle_id \notin DOMAIN by_vehicle
                \/ by_vehicle[vehicle_id].expected_time > pred_dt
        THEN [exc |-> "",
              map |-> [v \in DOMAIN by_vehicle \cup {vehicle_id} |->
                          IF v = vehicle_id THEN entry ELSE by_vehicle[v]]]
        ELSE [exc |-> "", map |-> by_vehicle]

RECURSIVE NextStopLoop(_, _, _, _)
NextStopLoop(data, included, t, n) ==
    IF n = 0 THEN [exc |-> "", map |-> <<>>]
    ELSE LET before == NextStopLoop(data, included, t, n - 1)
         IN  IF before.exc # "" THEN before
             ELSE NextStopItem(before.map, data[n], included, t)

_next_stop_by_vehicle(response, t) ==
    IF Truthy(response.error) THEN [st |-> "ok", exc |-> "", map |-> <<>>]
    ELSE LET r == NextStopLoop(response.data,
                      _build_included_lookup(response.included), t,
                      Len(response.data))
         IN  IF r.exc # "" THEN [st |-> "raised", exc |-> r.exc, map |-> <<>>]
             ELSE [st |-> "ok", exc |-> "", map |-> r.map]

UnsetMap == [st |-> "unset", exc |-> "", map |-> <<>>]

----------------------------------------------------------------------------
(* Record Flattener: alerts *)

\* One alert resource.  severity is a JSON number (None when absent); the
\* three text attributes are given by their lengths (0: absent or empty);
\* active_period is a sequence of [start, end] timestamp strings.
Alert(severity, description, short_header, header, active_period) ==
    [severity |-> severity, description |-> description,
     short_header |-> short_header, header |-> header,
     active_period |-> active_period]

Period(start, end) == [start |-> start, end |-> end]

\* SEVERITY_MAP.get(severity_val, str(severity_val) if ... else "Unknown")
SeverityLabel(severity_val) ==
    CASE severity_val = 1 -> "Information"
      [] severity_val = 2 -> "Warning"
      [] severity_val = 3 -> "Emergency"
      [] severity_val = None -> "Unknown"
      [] OTHER -> ToString(severity_val)

\* description or short_header or header or "", cut to 200 characters
DescriptionLength(a) ==
    LET len == IF a.description > 0 THEN a.description
               ELSE IF a.short_header > 0 THEN a.short_header
               ELSE a.header
    IN  Min2(len, 200)

\* _parse_iso of the first active period raises
AlertItemExc(a) ==
    IF a.active_period = <<>> THEN ""
    ELSE IF _parse_iso_raises(a.active_period[1].start) THEN "ValueError"
    ELSE IF _parse_iso_raises(a.active_period[1].end) THEN "ValueError"
    ELSE ""

AlertRow_end_inclusive(a, t, k) ==
    LET has == a.active_period # <<>>
        start_time == IF has THEN _parse_iso(a.active_period[1].start) ELSE None
        end_time == IF has THEN _parse_iso(a.active_period[1].end) ELSE None
    IN  [Severity |-> SeverityLabel(a.severity),
         Description |-> DescriptionLength(a),
         StartTime |-> start_time,
         EndTime |-> end_time,
         Status |-> IF /\ has
                       /\ start_time # None
                       /\ (end_time = None \/ t <= end_time)
                       /\ t >= start_time
                    THEN "Active" ELSE "Inactive",
         src |-> k]

AlertRow(a, t, k) ==
    LET has == a.active_period # <<>>
        start_time == IF has THEN _parse_iso(a.active_period[1].start) ELSE None
        end_time == IF has THEN _parse_iso(a.active_period[1].end) ELSE None
    IN  [Severity |-> SeverityLabel(a.severity),
         Description |-> DescriptionLength(a),
         StartTime |-> start_time,
         EndTime |-> end_time,
         Status |-> IF /\ has
                       /\ start_time # None
                       /\ (end_time = None \/ t < end_time)
                       /\ t >= start_time
                    THEN "Active" ELSE "Inactive",
         src |-> k]

RECURSIVE AlertExc(_, _)
AlertExc(alerts, n) ==
    IF n = 0 THEN ""
    ELSE IF AlertExc(alerts, n - 1) # "" THEN AlertExc(alerts, n - 1)
    ELSE AlertItemExc(alerts[n])

parse_alerts(response, t) ==
    IF Truthy(response.error) THEN Ok(<<>>)
    ELSE IF AlertExc(response.data, Len(response.data)) # ""
    THEN Raised(AlertExc(response.data, Len(response.data)))
    ELSE Ok([k \in 1..Len(response.data) |-> AlertRow(response.data[k], t, k)])

----------------------------------------------------------------------------
(* Record Flattener: vehicles *)

NoCoord == [k |-> "none", v |-> 0]

Num(v) == [k |-> "num", v |-> v]

NumStr(v) == [k |-> "numstr", v |-> v]

BadCoord == [k |-> "bad", v |-> 0]

\* attrs has no "position" key
NoPosition == [k |-> "absent", latitude |-> NoCoord, longitude |-> NoCoord]

\* attrs["position"] is an object with these coordinates
Position(lat, lon) == [k |-> "dict", latitude |-> lat, longitude |-> lon]

\* attrs["position"] is present but is not an object
PositionNotDict == [k |-> "other", latitude |-> NoCoord, longitude |-> NoCoord]

\* float(c) raises TypeError or ValueError
FloatRaises(c) == c.k \notin {"num", "numstr"}

\* lat (or lon): the direct attribute, else the one under position
VehicleCoord(direct, position, nested) ==
    IF direct.k = "none" /\ position.k = "dict" THEN nested ELSE direct

VehicleKept_needs_bearing(item) ==
    LET lat == VehicleCoord(item.latitude, item.position, item.position.latitude)
        lon == VehicleCoord(item.longitude, item.position, item.position.longitude)
    IN  /\ lat.k # "none"
        /\ lon.k # "none"
        /\ ~FloatRaises(lat)
        /\ ~FloatRaises(lon)
        /\ ~FloatRaises(item.bearing)

\* The vehicle yields a record
VehicleKept(item) ==
    LET lat == VehicleCoord(item.latitude, item.position, item.position.latitude)
        lon == VehicleCoord(item.longitude, item.position, item.position.longitude)
    IN  /\ lat.k # "none"
        /\ lon.k # "none"
        /\ ~FloatRaises(lat)
        /\ ~FloatRaises(lon)

VehicleRecord(item, k) ==
    LET lat == VehicleCoord(item.latitude, item.position, item.position.latitude)
        lon == VehicleCoord(item.longitude, item.position, item.position.longitude)
    IN  [lat |-> lat.v, lon |-> lon.v,
         bearing |-> IF FloatRaises(item.bearing) THEN NoCoord
                     ELSE Num(item.bearing.v),
         vehicle_id |-> item.id,
         src |-> k]

RECURSIVE VehicleRecords(_, _)
VehicleRecords(vehicles, n) ==
    IF n = 0 THEN <<>>
    ELSE IF VehicleKept(vehicles[n])
    THEN Append(VehicleRecords(vehicles, n - 1), VehicleRecord(vehicles[n], n))
    ELSE VehicleRecords(vehicles, n - 1)

parse_vehicles_for_map_no_error_check(response) ==
    Ok(VehicleRecords(response.data, Len(response.data)))

parse_vehicles_for_map(response) ==
    IF Truthy(response.error) THEN Ok(<<>>)
    ELSE Ok(VehicleRecords(response.data, Len(response.data)))

\* round(minutes_behind, 1), in tenths of a minute: sec / 6 to the nearest
\* integer (a delay of a whole number of seconds is never at an exact half
\* in binary floating point unless it is a multiple of 3 s; halves go to even)
Round1(sec) ==
    LET a == IF sec >= 0 THEN sec ELSE -sec
        q == a \div 6
        r == a % 6
        m == IF r < 3 THEN q ELSE IF r > 3 THEN q + 1
             ELSE IF q % 2 = 0 THEN q ELSE q + 1
    IN  IF sec >= 0 THEN m ELSE -m

\* expected_time.astimezone(ZoneInfo(MBTA_TZ)).strftime("%H:%M"), as the
\* minute of the local day
LocalHHMM(t) ==
    LET local == t + MBTA_TZ(t \div SecondsPerDay)
    IN  (local % SecondsPerDay) \div 60

\* The enrichment of one base record ("-" stands for the em dash)
EnrichedRecord(v, response, included, nexts) ==
    LET hits == {i \in 1..Len(response.data) : response.data[i].id = v.vehicle_id}
        found == hits # {} /\ v.vehicle_id # NoId
        item == response.data[CHOOSE i \in hits : \A j \in hits : i <= j]
        trip == IF found /\ item.trip # NoId
                THEN Get(included, "trip", item.trip) ELSE Missing
        has_ns == v.vehicle_id \in DOMAIN nexts
    IN  [lat |-> v.lat, lon |-> v.lon, bearing |-> v.bearing,
         vehicle_id |-> v.vehicle_id, src |-> v.src,
         destination |-> IF trip # Missing /\ trip.attributes.headsign # ""
                         THEN trip.attributes.headsign ELSE "-",
         direction |-> IF trip = Missing \/ trip.attributes.direction_id.ty = "none"
                       THEN "-"
                       ELSE IF trip.attributes.direction_id.v = 0
                       THEN "Southbound" ELSE "Northbound",
         next_stop_name |-> IF has_ns /\ nexts[v.vehicle_id].stop_name # ""
                            THEN nexts[v.vehicle_id].stop_name ELSE "-",
         next_stop_time_expected |->
             IF has_ns THEN [has |-> TRUE,
                             hhmm |-> LocalHHMM(nexts[v.vehicle_id].expected_time)]
             ELSE [has |-> FALSE, hhmm |-> 0],
         minutes_behind |->
             IF has_ns /\ nexts[v.vehicle_id].minutes_behind.has
             THEN [has |-> TRUE,
                   tenths |-> Round1(nexts[v.vehicle_id].minutes_behind.sec)]
             ELSE [has |-> FALSE, tenths |-> 0]]

\* predictions is the all-stops payload ({} when the caller passes None)
parse_vehicles_for_map_enriched(response, predictions, t) ==
    LET base_list == parse_vehicles_for_map(response).rows
        ns == _next_stop_by_vehicle(predictions, t)
        included == _build_included_lookup(
                        IF Truthy(response.error) THEN <<>> ELSE response.included)
    IN  IF base_list = <<>> THEN Ok(<<>>)
        ELSE IF ns.st = "raised" THEN Raised(ns.exc)
        ELSE Ok([i \in 1..Len(base_list) |->
                    EnrichedRecord(base_list[i], response, included, ns.map)])

----------------------------------------------------------------------------
(* Record Flattener: shapes *)

\* One point of a shape's explicit point list: k is "dict" for an object
\* (with its coordinates under either spelling) and "other" for anything else
Point(latitude, lat, longitude, lon, lng) ==
    [k |-> "dict", latitude |-> latitude, lat |-> lat,
     longitude |-> longitude, lon |-> lon, lng |-> lng]

NotAPoint ==
    [k |-> "other", latitude |-> NoCoord, lat |-> NoCoord,
     longitude |-> NoCoord, lon |-> NoCoord, lng |-> NoCoord]

\* A shape resource.  polyline.k is "none" (absent or not a string), "empty",
\* "invalid" (pl.decode raises) or "valid" (pl.decode returns coords, each a
\* <<lat, lon>> pair); points is the explicit point list.
Shape(polyline, points) == [polyline |-> polyline, points |-> points]

NoPolyline == [k |-> "none", coords |-> <<>>]

Polyline(coords) == [k |-> "valid", coords |-> coords]

InvalidPolyline == [k |-> "invalid", coords |-> <<>>]

\* attrs["polyline"] is the empty string
EmptyPolyline == [k |-> "empty", coords |-> <<>>]

\* Python truthiness of a coordinate value
CoordTruthy(c) == c.k \in {"numstr", "bad"} \/ (c.k = "num" /\ c.v # 0)

CoordOr(a, b) == IF CoordTruthy(a) THEN a ELSE b

PointLat(pt) == CoordOr(pt.latitude, pt.lat)

PointLon(pt) == CoordOr(CoordOr(pt.longitude, pt.lon), pt.lng)

\* The point contributes a coordinate pair
PointUsed(pt) ==
    pt.k = "dict" /\ PointLat(pt).k # "none" /\ PointLon(pt).k # "none"

\* float(la) or float(lo) raises on a point of the list
PointsRaise(points) ==
    \E i \in 1..Len(points) :
        /\ PointUsed(points[i])
        /\ (FloatRaises(PointLat(points[i])) \/ FloatRaises(PointLon(points[i])))

RECURSIVE PointCoords(_, _)
PointCoords(points, n) ==
    IF n = 0 THEN <<>>
    ELSE IF PointUsed(points[n])
    THEN Append(PointCoords(points, n - 1),
                <<PointLat(points[n]).v, PointLon(points[n]).v>>)
    ELSE PointCoords(points, n - 1)

Lons(coords) == [i \in 1..Len(coords) |-> coords[i][2]]

Lats(coords) == [i \in 1..Len(coords) |-> coords[i][1]]

\* What decoding one shape gives: None (none), a segment, or an exception
NoSegment == [none |-> TRUE, exc |-> "", lons |-> <<>>, lats |-> <<>>]

Segment(coords) ==
    [none |-> FALSE, exc |-> "", lons |-> Lons(coords), lats |-> Lats(coords)]

\* A segment of the result list (src: position of its shape in the payload)
SegmentRow(seg, k) == [lons |-> seg.lons, lats |-> seg.lats, src |-> k]

\* (lons, lats), None, or the exception raised (exc)
_decode_shape_to_lons_lats(item) ==
    IF item.polyline.k \in {"valid", "invalid"}
    THEN IF item.polyline.k = "valid" /\ item.polyline.coords # <<>>
         THEN Segment(item.polyline.coords)
         ELSE NoSegment
    ELSE IF item.points = <<>> THEN NoSegment
    ELSE IF PointsRaise(item.points) THEN [NoSegment EXCEPT !.exc = "ValueError"]
    ELSE IF PointCoords(item.points, Len(item.points)) = <<>> THEN NoSegment
    ELSE Segment(PointCoords(item.points, Len(item.points)))

RECURSIVE ShapeExc(_, _)
ShapeExc(shapes, n) ==
    IF n = 0 THEN ""
    ELSE IF ShapeExc(shapes, n - 1) # "" THEN ShapeExc(shapes, n - 1)
    ELSE _decode_shape_to_lons_lats(shapes[n]).exc

RECURSIVE Segments(_, _)
Segments(shapes, n) ==
    IF n = 0 THEN <<>>
    ELSE IF ~_decode_shape_to_lons_lats(shapes[n]).none
    THEN Append(Segments(shapes, n - 1),
                SegmentRow(_decode_shape_to_lons_lats(shapes[n]), n))
    ELSE Segments(shapes, n - 1)

parse_red_line_shape(response) ==
    IF Truthy(response.error) THEN Ok(<<>>)
    ELSE IF ShapeExc(response.data, Len(response.data)) # ""
    THEN Raised(ShapeExc(response.data, Len(response.data)))
    ELSE Ok(Segments(response.data, Len(response.data)))

\* max(shapes, key=lambda s: len(s[0])): the first segment of greatest length;
\* rows is <<>> for None
parse_route_shapes_merged(response) ==
    LET r == parse_red_line_shape(response)
        shapes == r.rows
    IN  IF r.st = "raised" THEN r
        ELSE IF shapes = <<>> THEN Ok(<<>>)
        ELSE Ok(<<shapes[CHOOSE i \in 1..Len(shapes) :
                      /\ \A j \in 1..Len(shapes) :
                            Len(shapes[j].lons) <= Len(shapes[i].lons)
                      /\ \A j \in 1..(i - 1) :
                            Len(shapes[j].lons) < Len(shapes[i].lons)]>>)

----------------------------------------------------------------------------
(* Inputs *)

\* Most predictions in a payload
MaxPreds == 3

RECURSIVE SeqsUpTo(_, _)
SeqsUpTo(S, n) ==
    IF n = 0 THEN {<<>>}
    ELSE LET shorter == SeqsUpTo(S, n - 1)
         IN  shorter \cup {Append(q, x) : q \in {r \in shorter : Len(r) = n - 1},
                                          x \in S}

\* The included array of the predictions payloads: two schedules (the second
\* with the alternative attribute names), two trips, one stop
PredIncluded ==
    << Resource("schedule", "s1",
           [NoAttrs EXCEPT !.departure_time = ZStr(0, 1000),
                           !.arrival_time = ZStr(0, 1000)]),
       Resource("schedule", "s2",
           [NoAttrs EXCEPT !.departure = ZStr(0, 1300),
                           !.arrival = ZStr(0, 1300)]),
       Resource("trip", "t1", [NoAttrs EXCEPT !.headsign = "Ashmont"]),
       Resource("trip", "t2", [NoAttrs EXCEPT !.headsign = "Braintree"]),
       Resource("stop", "p1", [NoAttrs EXCEPT !.name = "Davis"]) >>

\* Predictions a payload is drawn from: both directions (as int, digit string
\* and null), each combination of present times, delays around the
\* threshold, equal times, references absent from included ("s9", "t9") and
\* a malformed timestamp
PredItems ==
    { Prediction(IntDir(0), ZStr(0, 1000), NoneStr, "s1", "t1", "v1", "p1"),
      Prediction(IntDir(0), ZStr(0, 1000), NoneStr, NoId, "t2", NoId, NoId),
      Prediction(IntDir(0), ZStr(0, 1200), NoneStr, "s1", "t1", "v1", "p1"),
      Prediction(IntDir(0), NoneStr, ZStr(0, 1100), "s1", "t2", "v2", NoId),
      Prediction(IntDir(0), NoneStr, NoneStr, "s1", "t1", NoId, NoId),
      Prediction(IntDir(0), NoneStr, NoneStr, NoId, "t1", "v1", NoId),
      Prediction(IntDir(0), EmptyStr, NoneStr, NoId, NoId, NoId, NoId),
      Prediction(IntDir(1), ZStr(0, 1000), NoneStr, "s1", "t1", "v1", "p1"),
      Prediction(IntDir(1), NoneStr, NoneStr, "s2", "t1", NoId, NoId),
      Prediction(StrDir(0), ZStr(0, 900), NoneStr, NoId, "t1", NoId, NoId),
      Prediction(StrDir(1), NoneStr, ZStr(0, 1121), "s1", NoId, "v1", NoId),
      Prediction(NoDir, ZStr(0, 1000), NoneStr, NoId, "t1", NoId, NoId),
      Prediction(IntDir(0), ZStr(0, 1000), NoneStr, "s9", "t1", "v1", "p1"),
      Prediction(IntDir(0), ZStr(0, 1000), NoneStr, "s1", "t9", NoId, NoId),
      Prediction(IntDir(0), BadStr, NoneStr, "s1", "t1", "v1", "p1"),
      Prediction(IntDir(0), ZStr(0, 1120), NoneStr, "s2", "t1", NoId, NoId) }

Payload(error, data, included) ==
    [error |-> error, data |-> data, included |-> included]

EmptyPayload == Payload("absent", <<>>, <<>>)

\* Instants handed to _derive_status: delays of -60, 0, 60, 119, 120, 121 s
StatusTimes == {None, 940, 1000, 1060, 1119, 1120, 1121}

ThresholdMinutes == {1, 2}

----------------------------------------------------------------------------
(* MBTA client (Shiny App/api/mbta_client.py): _request and the fetch
   functions.  The network is the environment: what requests.get meets is
   chosen when the call is made. *)

\* Values of os.getenv("MBTA_API_KEY"): None, "" and a key
KeyValues == {"unset", "empty", "set"}

\* One GET: path and the filter[stop] and filter[route] parameters
HttpGet(path, stop, route) == [path |-> path, stop |-> stop, route |-> route]

\* requests.get raised a requests.RequestException whose str() is message
TransportError(message) ==
    [kind |-> "exception", status_code |-> 0, valid |-> FALSE,
     body |-> EmptyPayload, message |-> message]

\* requests.get returned a response: its status, whether resp.json() parses
\* the body (message is str() of the decoder's exception when it does not),
\* and the parsed body
HttpResponse(status_code, valid, body) ==
    [kind |-> "response", status_code |-> status_code, valid |-> valid,
     body |-> body,
     message |-> IF valid THEN "" ELSE "Expecting value: line 1 column 1 (char 0)"]

\* No GET was issued
NoHttp == [kind |-> "none", status_code |-> 0, valid |-> FALSE,
           body |-> EmptyPayload, message |-> ""]

\* {"error": True, "message": ..., "status_code": ...}; data and included
\* are what .get("data", []) and .get("included", []) give on it
ErrorDict(message, status_code) ==
    [error |-> "true", data |-> <<>>, included |-> <<>>,
     message |-> message, status_code |-> status_code]

\* No _request call has returned yet
NoRet == [error |-> "unset", data |-> <<>>, included |-> <<>>]

_request_status_lost(key, http) ==
    IF key # "set"
    THEN ErrorDict("MBTA_API_KEY is not set. Add it to .env.", None)
    ELSE IF http.kind = "exception" THEN ErrorDict(http.message, None)
    ELSE IF http.status_code # 200
    THEN ErrorDict("API request failed: status " \o ToString(http.status_code),
                   http.status_code)
    ELSE IF http.valid THEN http.body
    ELSE ErrorDict("Invalid JSON: " \o http.message, None)

\* What _request returns when the GET, if one is issued, meets http
_request(key, http) ==
    IF key # "set"
    THEN ErrorDict("MBTA_API_KEY is not set. Add it to .env.", None)
    ELSE IF http.kind = "exception" THEN ErrorDict(http.message, None)
    ELSE IF http.status_code # 200
    THEN ErrorDict("API request failed: status " \o ToString(http.status_code),
                   http.status_code)
    ELSE IF http.valid THEN http.body
    ELSE ErrorDict("Invalid JSON: " \o http.message, http.status_code)

\* The GETs a _request call for get issues: none without a key
_request_gets(key, get) == IF key = "set" THEN <<get>> ELSE <<>>

\* resp.get("error") on what _request returned
HasError(resp) == Truthy(resp.error)

\* The calls the fetch functions make
fetch_alerts == HttpGet("/alerts", "", "Red")

fetch_predictions == HttpGet("/predictions", "place-alfcl", "Red")

fetch_predictions_all_stops == HttpGet("/predictions", "", "Red")

fetch_vehicles == HttpGet("/vehicles", "", "Red")

fetch_shapes(route_id) == HttpGet("/shapes", "", route_id)

\* query_ollama_cloud has not returned: st is "unset", "ok" or "raised",
\* content the assistant message's content, met what the POST met
NoReport == [st |-> "unset", content |-> "", met |-> ""]

\* data_reporter.main() has not started
ReporterIdle ==
    /\ OLLAMA_API_KEY = "set"
    /\ reporter_pc = "start"
    /\ reporter_resps = <<>>
    /\ report_text = NoReport
    /\ reporter_events = <<>>

----------------------------------------------------------------------------
(* The Shiny application (Shiny App/app.py): values of its reactive state *)

\* The three effects of server()
Effects == {"_fetch_and_parse", "_auto_refresh_timer", "_fetch_extra_map_layers"}

\* The reactive sources the effects read
Sources ==
    {"refresh", "refresh_interval_min", "map_routes",
     "skip_next_timer_refresh", "shapes_by_route"}

\* A value of the snapshot together with the refresh cycle whose responses
\* it was made from; cycle 0 is the value the module starts with
Tagged(c, v) == [cycle |-> c, value |-> v]

\* api_error = None
NoError == ""

\* shapes_by_route = {}
NoShapes == [name \in {} |-> Tagged(0, <<>>)]

\* input.refresh_interval_min() is None: the field is empty
NoInterval == -1000

\* MIN_AUTO_REFRESH_MINUTES = 0.5, in tenths of a minute
MIN_AUTO_REFRESH_MINUTES == 5

\* No _do_refresh has run: cycle_errors
NoCycle == <<"", "", "", "">>

\* No click has been made: click_trace
NoClick == [live |-> FALSE, auto |-> FALSE, refreshes |-> 0, timer_runs |-> 0]

\* _auto_refresh_timer has not run: last_timer_run
NoTimerRun ==
    [ran |-> FALSE, interval |-> 0, refreshed |-> FALSE, delay |-> None,
     consumed |-> "", cause |-> "", gap |-> None]

\* _fetch_extra_map_layers has not run: last_layers_run
NoLayersRun == [ran |-> FALSE, cause |-> "", fetched |-> <<>>, runs |-> 0]

\* The session has started: the module-level reactive values as lines 55-66
\* create them, the inputs at their initial values, every effect invalidated
AppStart ==
    /\ refresh = 0
    /\ refresh_interval_min = 0
    /\ map_routes = <<"Red">>
    /\ changes = [interval |-> 0, map_routes |-> 0]
    /\ api_error = NoError
    /\ df_alerts = Tagged(0, <<>>)
    /\ df_departures = Tagged(0, <<>>)
    /\ df_near_term = Tagged(0, <<>>)
    /\ df_future = Tagged(0, <<>>)
    /\ vehicles_map = Tagged(0, <<>>)
    /\ shapes_by_route = NoShapes
    /\ last_api_call_time = 0
    /\ skip_next_timer_refresh = FALSE
    /\ session = "open"
    /\ pending = Effects
    /\ deps = [e \in Effects |-> {}]
    /\ invalidate_later = None
    /\ cause = [e \in Effects |-> "start"]
    /\ cycle = 0
    /\ cycle_errors = NoCycle
    /\ click_trace = NoClick
    /\ skip_origin = ""
    /\ last_timer_run = NoTimerRun
    /\ last_layers_run = NoLayersRun

\* No session has started
AppIdle ==
    /\ refresh = 0
    /\ refresh_interval_min = 0
    /\ map_routes = <<"Red">>
    /\ changes = [interval |-> 0, map_routes |-> 0]
    /\ api_error = NoError
    /\ df_alerts = Tagged(0, <<>>)
    /\ df_departures = Tagged(0, <<>>)
    /\ df_near_term = Tagged(0, <<>>)
    /\ df_future = Tagged(0, <<>>)
    /\ vehicles_map = Tagged(0, <<>>)
    /\ shapes_by_route = NoShapes
    /\ last_api_call_time = 0
    /\ skip_next_timer_refresh = FALSE
    /\ session = "closed"
    /\ pending = {}
    /\ deps = [e \in Effects |-> {}]
    /\ invalidate_later = None
    /\ cause = [e \in Effects |-> ""]
    /\ cycle = 0
    /\ cycle_errors = NoCycle
    /\ click_trace = NoClick
    /\ skip_origin = ""
    /\ last_timer_run = NoTimerRun
    /\ last_layers_run = NoLayersRun

\* Nothing outside the flatteners has run
Idle ==
    /\ MBTA_API_KEY = "set"
    /\ http_log = <<>>
    /\ http_met = NoHttp
    /\ request_ret = NoRet
    /\ ReporterIdle
    /\ AppIdle

----------------------------------------------------------------------------
(* Status derivation and the predictions flatteners as a state machine: the
   inputs are fixed by Init, each action is one call and records what the
   call returned. *)

NoResults ==
    /\ departures_df = Unset
    /\ arrivals_raw_df = Unset
    /\ near_term_df = Unset
    /\ future_df = Unset
    /\ next_stop = UnsetMap
    /\ alerts_df = Unset
    /\ vehicles_list = Unset
    /\ enriched_list = Unset
    /\ shapes_list = Unset
    /\ merged_shape = Unset
    /\ iso_dt = <<UnsetDt, UnsetDt>>

\* Either arguments for _derive_status, or a predictions payload
Init ==
    /\ status = ""
    /\ vehicles_response = EmptyPayload
    /\ alerts_response = EmptyPayload
    /\ shapes_response = EmptyPayload
    /\ now = 500
    /\ NoResults
    /\ Idle
    /\ iso_s = <<NoneStr, NoneStr>>
    /\ \/ /\ scheduled_dt \in StatusTimes
          /\ predicted_dt \in StatusTimes
          /\ threshold_minutes \in ThresholdMinutes
          /\ predictions_response = EmptyPayload
       \/ /\ scheduled_dt = None
          /\ predicted_dt = None
          /\ threshold_minutes = 2
          /\ predictions_response \in
                {Payload("absent", data, PredIncluded) :
                    data \in SeqsUpTo(PredItems, MaxPreds)}

DeriveStatus ==
    /\ status' = _derive_status(scheduled_dt, predicted_dt, threshold_minutes)
    /\ UNCHANGED <<scheduled_dt, predicted_dt, threshold_minutes>>
    /\ UNCHANGED <<outsideVars, isoVars, inputVars, resultVars>>

ParseDepartures ==
    /\ departures_df' \in parse_departures(predictions_response)
    /\ UNCHANGED <<arrivals_raw_df, near_term_df, future_df, next_stop, otherResults>>
    /\ UNCHANGED <<outsideVars, isoVars, statusVars, inputVars>>

ParseArrivalsRaw ==
    /\ arrivals_raw_df' = _parse_arrivals_raw(predictions_response)
    /\ UNCHANGED <<departures_df, near_term_df, future_df, next_stop, otherResults>>
    /\ UNCHANGED <<outsideVars, isoVars, statusVars, inputVars>>

NextStopByVehicle ==
    /\ next_stop' = _next_stop_by_vehicle(predictions_response, now)
    /\ UNCHANGED <<departures_df, arrivals_raw_df, near_term_df, future_df, otherResults>>
    /\ UNCHANGED <<outsideVars, isoVars, statusVars, inputVars>>

Next ==
    \/ DeriveStatus
    \/ ParseDepartures
    \/ ParseArrivalsRaw
    \/ NextStopByVehicle

Spec == Init /\ [][Next]_vars

----------------------------------------------------------------------------
(* Properties of status derivation and of the predictions flatteners *)

RowsOf(df) == {df.rows[i] : i \in 1..Len(df.rows)}

data == predictions_response.data

\* Some prediction of the payload carries a timestamp that is not ISO-8601
HasMalformedTime ==
    \E k \in 1..Len(data) :
        data[k].departure_time = BadStr \/ data[k].arrival_time = BadStr

IncludedKeys ==
    {<<predictions_response.included[i].type, predictions_response.included[i].id>> :
        i \in 1..Len(predictions_response.included)}

\* Prediction k references a schedule or trip that is not in included
Dangling(k) ==
    \/ data[k].schedule # NoId /\ <<"schedule", data[k].schedule>> \notin IncludedKeys
    \/ data[k].trip # NoId /\ <<"trip", data[k].trip>> \notin IncludedKeys

HasDanglingReference == \E k \in 1..Len(data) : Dangling(k)

\* The schedule resource prediction k refers to carries a departure time
HasScheduledDeparture(k) ==
    \E i \in 1..Len(predictions_response.included) :
        LET inc == predictions_response.included[i]
        IN  /\ inc.type = "schedule"
            /\ inc.id = data[k].schedule
            /\ data[k].schedule # NoId
            /\ \/ inc.attributes.departure_time.tz \in {"Z", "offset", "naive"}
               \/ inc.attributes.departure.tz \in {"Z", "offset", "naive"}

\* C1: no predicted instant means Cancelled: _derive_status returns
\* "Cancelled" whenever its predicted argument is None, whatever the
\* scheduled argument is, and every row of parse_departures and of
\* _parse_arrivals_raw whose actual time is None has status "Cancelled".
C1_NullActualIsCancelled ==
    /\ (status # "" /\ predicted_dt = None) => status = "Cancelled"
    /\ \A r \in RowsOf(departures_df) : r.Actual = None => r.Status = "Cancelled"
    /\ \A r \in RowsOf(arrivals_raw_df) : r.Actual = None => r.Status = "Cancelled"

\* _derive_status ran on (None, None) and a departures row without an actual
\* time but with a scheduled time was emitted
C1_Witness ==
    /\ status = "Cancelled" /\ predicted_dt = None /\ scheduled_dt = None
    /\ \E r \in RowsOf(departures_df) : r.Actual = None /\ r.Scheduled # None

\* C2: _derive_status returns "On Time" whenever the predicted instant is
\* not None and the scheduled instant is None.
C2_NoScheduleIsOnTime ==
    (status # "" /\ predicted_dt # None /\ scheduled_dt = None)
        => status = "On Time"

C2_Witness ==
    status = "On Time" /\ predicted_dt = 1121 /\ scheduled_dt = None

\* C3 as stated: with a None scheduled instant the derived status is
\* "Cancelled" for any actual instant.
C3_NullScheduledIsCancelled ==
    (status # "" /\ scheduled_dt = None) => status = "Cancelled"

\* C3 as amended: with a None scheduled instant the derived status is
\* "Cancelled" when the actual instant is None too and "On Time" otherwise.
C3_NullScheduledFollowsActual ==
    (status # "" /\ scheduled_dt = None)
        => status = (IF predicted_dt = None THEN "Cancelled" ELSE "On Time")

C3_Witness ==
    status = "On Time" /\ scheduled_dt = None /\ predicted_dt = 940

\* C4: with both instants present the status is "On Time" exactly when
\* predicted - scheduled <= threshold_minutes * 60 seconds and "Delayed"
\* otherwise; at the 2-minute threshold 119 s and 120 s late are On Time,
\* 121 s late is Delayed, and an early instant is On Time.
C4_ThresholdInclusive ==
    (status # "" /\ scheduled_dt # None /\ predicted_dt # None) =>
        /\ status = "On Time" <=>
               predicted_dt - scheduled_dt <= threshold_minutes * 60
        /\ status = "Delayed" <=>
               predicted_dt - scheduled_dt > threshold_minutes * 60
        /\ threshold_minutes = 2 =>
               /\ predicted_dt - scheduled_dt \in {119, 120} => status = "On Time"
               /\ predicted_dt - scheduled_dt = 121 => status = "Delayed"
               /\ predicted_dt < scheduled_dt => status = "On Time"

\* A delay of exactly 120 s at the 2-minute threshold was classified
C4_Witness ==
    /\ status = "On Time" /\ threshold_minutes = 2
    /\ scheduled_dt = 1000 /\ predicted_dt = 1120

\* C6 as stated: a reference to a schedule or trip that is absent from
\* included is read as empty attributes; parse_departures,
\* _parse_arrivals_raw and _next_stop_by_vehicle do not raise on it.
C6_MissingReferenceIsEmpty ==
    (HasDanglingReference /\ ~HasMalformedTime) =>
        /\ departures_df.st # "raised"
        /\ arrivals_raw_df.st # "raised"
        /\ next_stop.st # "raised"

\* C7 as stated: a payload with a malformed timestamp in one record still
\* flattens: parse_departures does not raise, and every record that emits a
\* row on its own still has its row.
C7_MalformedRecordIsSkipped ==
    (HasMalformedTime /\ ~HasDanglingReference /\ departures_df.st # "unset") =>
        /\ departures_df.st = "ok"
        /\ \A k \in 1..Len(data) :
              (/\ data[k].departure_time # BadStr
               /\ data[k].arrival_time # BadStr
               /\ Ok(<<>>) \notin parse_departures(
                      Payload("absent", <<data[k]>>, predictions_response.included)))
                 => \E r \in RowsOf(departures_df) : r.src = k

\* C8 as stated: parse_departures has a row for a prediction exactly when
\* the prediction's direction is 0 (as an int or a digit string) and it has
\* a predicted departure, scheduled departure or predicted arrival time.
C8_RowIffOutboundWithTime ==
    departures_df.st # "unset" =>
        \A k \in 1..Len(data) :
            (\E r \in RowsOf(departures_df) : r.src = k) <=>
                /\ data[k].direction_id \in {IntDir(0), StrDir(0)}
                /\ \/ data[k].departure_time \notin {NoneStr, EmptyStr}
                   \/ data[k].arrival_time \notin {NoneStr, EmptyStr}
                   \/ HasScheduledDeparture(k)

\* Best-available departure instant of a departures row
BestDeparture(r) == IF r.Actual # None THEN r.Actual ELSE r.Scheduled

\* The rows are ascending by best-available instant, rows without one last
RowsAscending ==
    \A i, j \in 1..Len(departures_df.rows) : i < j =>
        LET a == BestDeparture(departures_df.rows[i])
            b == BestDeparture(departures_df.rows[j])
        IN  (a = None => b = None) /\ (a # None /\ b # None => a <= b)

\* The columns of a departures row
Visible(r) == <<r.Destination, r.Scheduled, r.Actual, r.Status>>

\* C9 as stated: the rows parse_departures returns are ascending by
\* best-available departure instant with null instants last, and rows with
\* equal instants (and different contents) are in payload order.
C9_SortedAndStable ==
    /\ RowsAscending
    /\ \A i, j \in 1..Len(departures_df.rows) :
          (/\ i < j
           /\ BestDeparture(departures_df.rows[i]) =
                  BestDeparture(departures_df.rows[j])
           /\ Visible(departures_df.rows[i]) # Visible(departures_df.rows[j]))
             => departures_df.rows[i].src < departures_df.rows[j].src

----------------------------------------------------------------------------
(* The arrival views as a state machine *)

\* The included array of the arrivals payloads
ArrIncluded ==
    << Resource("schedule", "sA", [NoAttrs EXCEPT !.arrival_time = ZStr(0, 5600)]) >>

\* Arrivals around the window ends for now = 5000 and now = 5001: before
\* now, at now, at and just after minute 10, at and just after minute 60;
\* rows timed by the schedule or by the predicted departure; an outbound
\* prediction; a malformed timestamp
ArrivalItems ==
    { Prediction(IntDir(1), NoneStr, ZStr(0, t), NoId, NoId, "v1", NoId) :
          t \in {4999, 5000, 5600, 5601, 8600, 8601} }
    \cup
    { Prediction(IntDir(1), NoneStr, NoneStr, "sA", NoId, "v2", NoId),
      Prediction(IntDir(1), ZStr(0, 5601), NoneStr, NoId, NoId, NoId, NoId),
      Prediction(IntDir(1), ZStr(0, 8601), NoneStr, "sA", NoId, "v9", NoId),
      Prediction(IntDir(0), NoneStr, ZStr(0, 5600), NoId, NoId, "v1", NoId),
      Prediction(IntDir(1), NoneStr, BadStr, NoId, NoId, "v1", NoId) }

\* Data and included arrays of the vehicles payloads of the arrival views:
\* v1 stopped at a named stop and v2 without a stop reference
ArrVehicleData ==
    << Vehicle("v1", "p1", NoId, Num(42), Num(-71), Num(90), NoPosition),
       Vehicle("v2", NoId, NoId, Num(42), Num(-71), NoCoord, NoPosition) >>

ArrVehicleIncluded ==
    << Resource("stop", "p1", [NoAttrs EXCEPT !.name = "Davis"]) >>

\* Vehicles payloads of the arrival views: no vehicles; v1 and v2 as above;
\* v1 at a stop that is absent from included and v2 at the named stop; and
\* an error response that carries the first payload's data all the same
ArrVehiclePayloads ==
    { EmptyPayload,
      Payload("absent", ArrVehicleData, ArrVehicleIncluded),
      Payload("absent",
          << Vehicle("v1", "p9", NoId, Num(42), Num(-71), Num(90), NoPosition),
             Vehicle("v2", "p1", NoId, Num(42), Num(-71), NoCoord, NoPosition) >>,
          ArrVehicleIncluded),
      Payload("true", ArrVehicleData, ArrVehicleIncluded) }

InitArrivals ==
    /\ status = ""
    /\ scheduled_dt = None
    /\ predicted_dt = None
    /\ threshold_minutes = 2
    /\ NoResults
    /\ Idle
    /\ iso_s = <<NoneStr, NoneStr>>
    /\ alerts_response = EmptyPayload
    /\ shapes_response = EmptyPayload
    /\ now \in {5000, 5001}
    /\ vehicles_response \in ArrVehiclePayloads
    /\ predictions_response \in
          {Payload("absent", d, ArrIncluded) : d \in SeqsUpTo(ArrivalItems, MaxPreds)}

ParseNearTermArrivals ==
    /\ near_term_df' =
           parse_near_term_arrivals(predictions_response, vehicles_response, now)
    /\ UNCHANGED <<departures_df, arrivals_raw_df, future_df, next_stop, otherResults>>
    /\ UNCHANGED <<outsideVars, isoVars, statusVars, inputVars>>

ParseFutureArrivals ==
    /\ future_df' =
           parse_future_arrivals(predictions_response, vehicles_response, now)
    /\ UNCHANGED <<departures_df, arrivals_raw_df, near_term_df, next_stop, otherResults>>
    /\ UNCHANGED <<outsideVars, isoVars, statusVars, inputVars>>

NextArrivals ==
    \/ ParseArrivalsRaw
    \/ ParseNearTermArrivals
    \/ ParseFutureArrivals

SpecArrivals == InitArrivals /\ [][NextArrivals]_vars

Srcs(df) == {r.src : r \in RowsOf(df)}

\* df holds exactly one row for each arrival row timed within [lo, hi]
ExactlyWithin(df, lo, hi) ==
    /\ df.st = "ok"
    /\ Cardinality(Srcs(df)) = Len(df.rows)
    /\ Srcs(df) = {r.src : r \in {q \in RowsOf(arrivals_raw_df) :
                       q.arrival_time_dt >= lo /\ q.arrival_time_dt <= hi}}
    /\ \A r \in RowsOf(df) : \A q \in RowsOf(arrivals_raw_df) :
          q.src = r.src => /\ r.Scheduled = q.Scheduled
                           /\ r.Actual = q.Actual
                           /\ r.Status = q.Status

\* C10: for one value of now, parse_near_term_arrivals returns exactly the
\* arrival rows timed within [now, now + 10 min] and parse_future_arrivals
\* exactly those within [now, now + 60 min], both ends included.
C10_WindowsInclusive ==
    arrivals_raw_df.st = "ok" =>
        /\ near_term_df.st # "unset" =>
               ExactlyWithin(near_term_df, now, now + 600)
        /\ future_df.st # "unset" =>
               ExactlyWithin(future_df, now, now + 3600)

\* An arrival at minute 10 is in the near-term table, one a second later is
\* not, and one at minute 60 is in the future table
C10_Witness ==
    /\ near_term_df.st = "ok" /\ future_df.st = "ok"
    /\ \E a, b, c \in RowsOf(arrivals_raw_df) :
          /\ a.arrival_time_dt = now + 600 /\ a.src \in Srcs(near_term_df)
          /\ b.arrival_time_dt = now + 601 /\ b.src \notin Srcs(near_term_df)
          /\ c.arrival_time_dt = now + 3600 /\ c.src \in Srcs(future_df)

\* C11 as stated: the two views are filtered to disjoint windows, so no
\* arrival row is in both the near-term and the future table.
C11_WindowsDisjoint ==
    Srcs(near_term_df) \cap Srcs(future_df) = {}

\* C11 as amended: the near-term window lies inside the future window, so
\* every near-term row is in the future table too, with the same contents,
\* and the rows only the future table has are those timed after now + 10 min.
C11_NearTermWithinFuture ==
    (near_term_df.st = "ok" /\ future_df.st = "ok") =>
        /\ RowsOf(near_term_df) \subseteq RowsOf(future_df)
        /\ arrivals_raw_df.st = "ok" =>
               Srcs(future_df) \ Srcs(near_term_df) =
                   {q.src : q \in {r \in RowsOf(arrivals_raw_df) :
                        /\ r.arrival_time_dt > now + 600
                        /\ r.arrival_time_dt <= now + 3600}}

\* Both views were computed; one arrival is in both of them and another is
\* in the future table only
C11_Witness ==
    /\ near_term_df.st = "ok" /\ future_df.st = "ok"
    /\ Srcs(near_term_df) # {}
    /\ Srcs(future_df) \ Srcs(near_term_df) # {}

\* The vehicles of the vehicles payload with the id of prediction k's vehicle
VehiclesOf(k) ==
    {i \in 1..Len(vehicles_response.data) :
        /\ data[k].vehicle # NoId
        /\ vehicles_response.data[i].id = data[k].vehicle}

\* The included stops of the vehicles payload that vehicle i references
StopsOf(i) ==
    {j \in 1..Len(vehicles_response.included) :
        /\ vehicles_response.data[i].stop # NoId
        /\ vehicles_response.included[j].type = "stop"
        /\ vehicles_response.included[j].id = vehicles_response.data[i].stop}

\* The vehicle of prediction k does not resolve to a stop: no vehicle id, no
\* such vehicle, an error-flagged vehicles payload, no stop reference, or a
\* stop that is absent from included
Unresolved(k) ==
    \/ Truthy(vehicles_response.error)
    \/ VehiclesOf(k) = {}
    \/ \A i \in VehiclesOf(k) : StopsOf(i) = {}

\* Every row of df names the stop its vehicle is at, or "Unknown"
CurrentStopResolved(df) ==
    \A r \in RowsOf(df) :
        IF Unresolved(r.src) THEN r.CurrentStop = "Unknown"
        ELSE \E i \in VehiclesOf(r.src) : \E j \in StopsOf(i) :
                r.CurrentStop = vehicles_response.included[j].attributes.name

----------------------------------------------------------------------------
(* All eight flatteners on payloads with and without an error flag *)

\* Data the payloads carry next to the error flag: rows the flattener would
\* otherwise emit, and records it would otherwise raise on
FlagPredData ==
    { <<>>,
      << Prediction(IntDir(0), ZStr(0, 5000), NoneStr, "s1", "t1", "v1", "p1"),
         Prediction(IntDir(1), NoneStr, ZStr(0, 5000), NoId, NoId, "v1", "p1") >>,
      << Prediction(IntDir(0), BadStr, NoneStr, "s9", "t1", "v1", NoId) >> }

FlagVehicleData ==
    { << Vehicle("v1", "p1", "t1", Num(42), Num(-71), Num(90), NoPosition),
         Vehicle("v2", NoId, NoId, NoCoord, NoCoord, BadCoord,
                 Position(NumStr(42), NumStr(-71))),
         Vehicle("v3", NoId, NoId, BadCoord, Num(-71), NoCoord, NoPosition) >> }

FlagAlertData ==
    { << Alert(2, 250, 0, 0, <<Period(ZStr(0, 4000), NoneStr)>>) >>,
      << Alert(7, 0, 0, 10, <<Period(BadStr, NoneStr)>>) >> }

FlagShapeData ==
    { << Shape(Polyline(<<<<42, -71>>, <<43, -71>>>>), <<>>),
         Shape(InvalidPolyline, <<>>) >>,
      << Shape(NoPolyline,
               <<Point(Num(42), NoCoord, BadCoord, NoCoord, NoCoord)>>) >> }

InitFlatteners ==
    /\ status = ""
    /\ scheduled_dt = None
    /\ predicted_dt = None
    /\ threshold_minutes = 2
    /\ NoResults
    /\ Idle
    /\ iso_s = <<NoneStr, NoneStr>>
    /\ now = 5000
    /\ predictions_response \in
          {Payload(e, d, PredIncluded) : e \in ErrorValues, d \in FlagPredData}
    /\ vehicles_response \in
          {Payload(e, d, PredIncluded) : e \in {"absent", "true"}, d \in FlagVehicleData}
    /\ alerts_response \in
          {Payload(e, d, <<>>) : e \in {"false", "text"}, d \in FlagAlertData}
    /\ shapes_response \in
          {Payload(e, d, <<>>) : e \in {"absent", "true"}, d \in FlagShapeData}

predResults == <<departures_df, arrivals_raw_df, near_term_df, future_df, next_stop>>

ParseAlerts ==
    /\ alerts_df' = parse_alerts(alerts_response, now)
    /\ UNCHANGED <<vehicles_list, enriched_list, shapes_list, merged_shape>>
    /\ UNCHANGED <<outsideVars, isoVars, statusVars, inputVars, predResults>>

ParseVehiclesForMap ==
    /\ vehicles_list' = parse_vehicles_for_map(vehicles_response)
    /\ UNCHANGED <<alerts_df, enriched_list, shapes_list, merged_shape>>
    /\ UNCHANGED <<outsideVars, isoVars, statusVars, inputVars, predResults>>

ParseVehiclesForMapEnriched ==
    /\ enriched_list' = parse_vehicles_for_map_enriched(vehicles_response,
                                                        predictions_response, now)
    /\ UNCHANGED <<alerts_df, vehicles_list, shapes_list, merged_shape>>
    /\ UNCHANGED <<outsideVars, isoVars, statusVars, inputVars, predResults>>

ParseRedLineShape ==
    /\ shapes_list' = parse_red_line_shape(shapes_response)
    /\ UNCHANGED <<alerts_df, vehicles_list, enriched_list, merged_shape>>
    /\ UNCHANGED <<outsideVars, isoVars, statusVars, inputVars, predResults>>

ParseRouteShapesMerged ==
    /\ merged_shape' = parse_route_shapes_merged(shapes_response)
    /\ UNCHANGED <<alerts_df, vehicles_list, enriched_list, shapes_list>>
    /\ UNCHANGED <<outsideVars, isoVars, statusVars, inputVars, predResults>>

NextFlatteners ==
    \/ ParseAlerts
    \/ ParseDepartures
    \/ ParseNearTermArrivals
    \/ ParseFutureArrivals
    \/ ParseVehiclesForMap
    \/ ParseVehiclesForMapEnriched
    \/ ParseRedLineShape
    \/ ParseRouteShapesMerged

SpecFlatteners == InitFlatteners /\ [][NextFlatteners]_vars

\* The flattener that produced df has run and returned an empty result
EmptyResult(df) == df.st # "unset" => df = Ok(<<>>)

\* C5: each flattener returns an empty result (no rows, an empty list, or
\* None), and does not raise, when its primary payload has a truthy error
\* field, whatever else the payload carries.
C5_ErrorPayloadIsEmpty ==
    /\ Truthy(alerts_response.error) => EmptyResult(alerts_df)
    /\ Truthy(predictions_response.error) =>
           /\ EmptyResult(departures_df)
           /\ EmptyResult(near_term_df)
           /\ EmptyResult(future_df)
    /\ Truthy(vehicles_response.error) =>
           /\ EmptyResult(vehicles_list)
           /\ EmptyResult(enriched_list)
    /\ Truthy(shapes_response.error) =>
           /\ EmptyResult(shapes_list)
           /\ EmptyResult(merged_shape)

\* All eight flatteners have run on error-flagged payloads that carry data
C5_Witness ==
    /\ Truthy(alerts_response.error) /\ alerts_response.data # <<>>
    /\ Truthy(predictions_response.error) /\ predictions_response.data # <<>>
    /\ Truthy(vehicles_response.error) /\ vehicles_response.data # <<>>
    /\ Truthy(shapes_response.error) /\ shapes_response.data # <<>>
    /\ \A df \in {alerts_df, departures_df, near_term_df, future_df,
                  vehicles_list, enriched_list, shapes_list, merged_shape} :
          df.st = "ok"

----------------------------------------------------------------------------
(* The vehicle flatteners and the next-stop merger as a state machine *)

\* Most vehicles in a vehicles payload
MaxVehicles == 3

\* Vehicles a payload is drawn from: coordinates given directly, under
\* position, or one of each; as numbers and as numeric strings; a coordinate
\* that is missing or not numeric, directly and under position; a position
\* that is not an object; a bearing that is numeric, missing or not numeric
VehicleItems ==
    { Vehicle("v1", "p1", "t1", Num(42), Num(-71), Num(90), NoPosition),
      Vehicle("v2", NoId, "t2", NoCoord, NoCoord, BadCoord,
              Position(NumStr(43), NumStr(-72))),
      Vehicle("v3", NoId, NoId, BadCoord, Num(-71), Num(90), NoPosition),
      Vehicle("v4", NoId, NoId, Num(42), NoCoord, Num(10), NoPosition),
      Vehicle("v5", "p1", "t9", NumStr(44), Num(-73), NoCoord, NoPosition),
      Vehicle("v6", NoId, NoId, Num(45), NoCoord, NumStr(180),
              Position(NoCoord, Num(-74))),
      Vehicle("v7", NoId, NoId, NoCoord, NoCoord, Num(90), PositionNotDict),
      Vehicle("v8", NoId, NoId, NoCoord, Num(-71), NoCoord,
              Position(BadCoord, Num(-71))) }

\* All-stops predictions payloads handed to the enrichment: None (read as
\* {}); next stops for v1 (two future predictions, one past, 130 s behind
\* schedule at the earlier one) and v2 (no schedule); the same payload with
\* an error flag; one whose only prediction is in the past; and one whose
\* future prediction references a schedule that is absent from included
AllStopsPayloads ==
    { EmptyPayload,
      Payload("absent",
          << Prediction(IntDir(0), NoneStr, ZStr(0, 1500), NoId, NoId, "v1", NoId),
             Prediction(IntDir(0), NoneStr, ZStr(0, 1130), "s1", "t1", "v1", "p1"),
             Prediction(IntDir(0), NoneStr, ZStr(0, 900), "s1", "t1", "v1", NoId),
             Prediction(IntDir(1), ZStr(0, 1000), NoneStr, NoId, NoId, "v2", "p9") >>,
          PredIncluded),
      Payload("text",
          << Prediction(IntDir(0), NoneStr, ZStr(0, 1130), "s1", "t1", "v1", "p1") >>,
          PredIncluded),
      Payload("absent",
          << Prediction(IntDir(0), NoneStr, ZStr(0, 900), "s1", "t1", "v1", "p1") >>,
          PredIncluded),
      Payload("absent",
          << Prediction(IntDir(0), NoneStr, ZStr(0, 1130), "s9", "t1", "v1", "p1") >>,
          PredIncluded) }

InitVehicles ==
    /\ status = ""
    /\ scheduled_dt = None
    /\ predicted_dt = None
    /\ threshold_minutes = 2
    /\ NoResults
    /\ Idle
    /\ iso_s = <<NoneStr, NoneStr>>
    /\ now = 1000
    /\ alerts_response = EmptyPayload
    /\ shapes_response = EmptyPayload
    /\ predictions_response \in AllStopsPayloads
    /\ vehicles_response \in
          {Payload("absent", d, PredIncluded) : d \in SeqsUpTo(VehicleItems, MaxVehicles)}

NextVehicles ==
    \/ ParseVehiclesForMap
    \/ NextStopByVehicle
    \/ ParseVehiclesForMapEnriched

SpecVehicles == InitVehicles /\ [][NextVehicles]_vars

\* A coordinate of vehicle k as the claim reads it: the direct attribute,
\* or the one under the position object when there is no direct one
Latitude(k) ==
    LET v == vehicles_response.data[k]
    IN  IF v.latitude # NoCoord THEN v.latitude
        ELSE IF v.position.k = "dict" THEN v.position.latitude ELSE NoCoord

Longitude(k) ==
    LET v == vehicles_response.data[k]
    IN  IF v.longitude # NoCoord THEN v.longitude
        ELSE IF v.position.k = "dict" THEN v.position.longitude ELSE NoCoord

\* The JSON value is a number or a string that reads as a number
Numeric(c) == c.k \in {"num", "numstr"}

\* C13: parse_vehicles_for_map does not raise and returns, in input order,
\* exactly one record for each vehicle whose latitude and longitude are both
\* present and numeric, with those coordinates and the vehicle's id; a
\* record's bearing is the vehicle's bearing when that is numeric and null
\* when it is missing or not numeric.
C13_RecordIffBothCoordinates ==
    vehicles_list.st # "unset" =>
        /\ vehicles_list.st = "ok"
        /\ \A i, j \in 1..Len(vehicles_list.rows) :
              i < j => vehicles_list.rows[i].src < vehicles_list.rows[j].src
        /\ \A k \in 1..Len(vehicles_response.data) :
              (\E r \in RowsOf(vehicles_list) : r.src = k) <=>
                  (Numeric(Latitude(k)) /\ Numeric(Longitude(k)))
        /\ \A r \in RowsOf(vehicles_list) :
              /\ r.lat = Latitude(r.src).v
              /\ r.lon = Longitude(r.src).v
              /\ r.vehicle_id = vehicles_response.data[r.src].id
              /\ r.bearing =
                     IF Numeric(vehicles_response.data[r.src].bearing)
                     THEN Num(vehicles_response.data[r.src].bearing.v)
                     ELSE NoCoord

\* A vehicle without a numeric latitude was dropped, and the two vehicles
\* after it were kept, one with a missing and one with a non-numeric bearing
C13_Witness ==
    /\ vehicles_list.st = "ok"
    /\ Len(vehicles_response.data) = 3
    /\ ~Numeric(Latitude(1))
    /\ Srcs(vehicles_list) = {2, 3}
    /\ vehicles_response.data[2].bearing = NoCoord
    /\ vehicles_response.data[3].bearing = BadCoord
    /\ \A r \in RowsOf(vehicles_list) : r.bearing = NoCoord

\* The next-stop mapping has no entry for vehicle id v: the predictions
\* payload is None or error-flagged, or no prediction of v is future-dated
NoNextStop(v) ==
    \/ Truthy(predictions_response.error)
    \/ \A k \in 1..Len(data) :
          ~(/\ data[k].vehicle = v
            /\ v # NoId
            /\ StrTruthy(StrOr(data[k].arrival_time, data[k].departure_time))
            /\ _parse_iso(StrOr(data[k].arrival_time, data[k].departure_time)) >= now)

\* C16 as stated: parse_vehicles_for_map_enriched returns one record for
\* each record of parse_vehicles_for_map on the same vehicles payload, in the
\* same order and with the same lat, lon, bearing and vehicle_id, and a
\* vehicle without an entry in the next-stop mapping has the placeholders
\* for next_stop_name and next_stop_time_expected and a null minutes_behind.
C16_OneRecordPerVehicle ==
    (enriched_list.st # "unset" /\ vehicles_list.st = "ok") =>
        /\ enriched_list.st = "ok"
        /\ Len(enriched_list.rows) = Len(vehicles_list.rows)
        /\ \A i \in 1..Len(enriched_list.rows) :
              LET e == enriched_list.rows[i]
                  v == vehicles_list.rows[i]
              IN  /\ e.lat = v.lat
                  /\ e.lon = v.lon
                  /\ e.bearing = v.bearing
                  /\ e.vehicle_id = v.vehicle_id
                  /\ NoNextStop(v.vehicle_id) =>
                        /\ e.next_stop_name = "-"
                        /\ ~e.next_stop_time_expected.has
                        /\ ~e.minutes_behind.has

----------------------------------------------------------------------------
(* The next-stop merger on all-stops predictions payloads *)

\* Predictions an all-stops payload is drawn from, around now = 1000: v1 due
\* in 5 and in 12 minutes, twice in 5 minutes with different stops and
\* schedules, exactly at now and a second before; v2 with a departure time
\* only, with both times and with none; a prediction without a vehicle; v3
\* in the past only (its schedule absent from included); and v1 with a
\* future time and an absent schedule, and with a malformed time
NextStopItems ==
    { Prediction(IntDir(0), NoneStr, ZStr(0, 1300), "s1", NoId, "v1", "p1"),
      Prediction(IntDir(0), NoneStr, ZStr(0, 1720), NoId, NoId, "v1", NoId),
      Prediction(IntDir(1), NoneStr, ZStr(0, 1300), "s2", NoId, "v1", "p9"),
      Prediction(IntDir(0), NoneStr, ZStr(0, 1000), NoId, NoId, "v1", NoId),
      Prediction(IntDir(0), NoneStr, ZStr(0, 999), "s1", NoId, "v1", "p1"),
      Prediction(IntDir(0), ZStr(0, 1300), NoneStr, NoId, NoId, "v2", "p1"),
      Prediction(IntDir(1), ZStr(0, 1200), ZStr(0, 1400), "s2", NoId, "v2", NoId),
      Prediction(IntDir(0), NoneStr, EmptyStr, "s1", NoId, "v2", "p1"),
      Prediction(IntDir(0), NoneStr, ZStr(0, 1300), "s1", NoId, NoId, "p1"),
      Prediction(IntDir(0), NoneStr, ZStr(0, 900), "s9", NoId, "v3", "p1"),
      Prediction(IntDir(0), NoneStr, ZStr(0, 1300), "s9", NoId, "v1", "p1"),
      Prediction(IntDir(0), NoneStr, BadStr, NoId, NoId, "v1", "p1") }

InitNextStop ==
    /\ status = ""
    /\ scheduled_dt = None
    /\ predicted_dt = None
    /\ threshold_minutes = 2
    /\ NoResults
    /\ Idle
    /\ iso_s = <<NoneStr, NoneStr>>
    /\ now = 1000
    /\ vehicles_response = EmptyPayload
    /\ alerts_response = EmptyPayload
    /\ shapes_response = EmptyPayload
    /\ predictions_response \in
          {Payload("absent", d, PredIncluded) : d \in SeqsUpTo(NextStopItems, MaxPreds)}

NextNextStop == NextStopByVehicle

SpecNextStop == InitNextStop /\ [][NextNextStop]_vars

\* The expected instant of prediction k: its arrival time when it has one,
\* otherwise its departure time (None when it has neither)
Expected(k) ==
    IF data[k].arrival_time \notin {NoneStr, EmptyStr}
    THEN _parse_iso(data[k].arrival_time)
    ELSE _parse_iso(data[k].departure_time)

\* The future-dated predictions of vehicle v
FutureOf(v) ==
    {k \in 1..Len(data) :
        data[k].vehicle = v /\ Expected(k) # None /\ Expected(k) >= now}

\* The first prediction in payload order among those of FutureOf(v) with
\* the least expected instant
Earliest(v) ==
    CHOOSE k \in FutureOf(v) :
        \A j \in FutureOf(v) :
            Expected(k) < Expected(j) \/ (Expected(k) = Expected(j) /\ k <= j)

\* C14: for every vehicle id in the result of _next_stop_by_vehicle the
\* entry's expected_time is the least expected instant among the vehicle's
\* predictions at or after now, wherever they stand in the payload, and the
\* entry is the one that prediction yields on its own (the first in payload
\* order of those with the least instant).
C14_EarliestFuturePrediction ==
    next_stop.st = "ok" =>
        \A v \in DOMAIN next_stop.map :
            /\ FutureOf(v) # {}
            /\ \A k \in FutureOf(v) :
                  next_stop.map[v].expected_time <= Expected(k)
            /\ next_stop.map[v].expected_time = Expected(Earliest(v))
            /\ next_stop.map[v] =
                  _next_stop_by_vehicle(
                      Payload("absent", <<data[Earliest(v)]>>,
                              predictions_response.included), now).map[v]

\* v1 has three future predictions, the later one first in the payload and
\* then two at the same earlier instant with different stops; the entry is
\* the first of those two
C14_Witness ==
    /\ next_stop.st = "ok"
    /\ Len(data) = 3
    /\ FutureOf("v1") = {1, 2, 3}
    /\ Expected(1) > Expected(2)
    /\ Expected(2) = Expected(3)
    /\ data[2].stop # data[3].stop
    /\ Earliest("v1") = 2
    /\ next_stop.map["v1"].expected_time = now + 300

\* C15 as stated: the result of _next_stop_by_vehicle has an entry for
\* exactly the vehicle ids referenced by a prediction whose expected instant
\* is not null and at or after now, and no entry's expected_time is before
\* now.
C15_EntryIffFuturePrediction ==
    next_stop.st # "unset" =>
        /\ next_stop.st = "ok"
        /\ DOMAIN next_stop.map =
              {data[k].vehicle : k \in {j \in 1..Len(data) :
                  /\ data[j].vehicle # NoId
                  /\ j \in FutureOf(data[j].vehicle)}}
        /\ \A v \in DOMAIN next_stop.map : next_stop.map[v].expected_time >= now

----------------------------------------------------------------------------
(* The shape flatteners as a state machine *)

\* Most shapes in a shapes payload
MaxShapes == 3

\* Shapes a payload is drawn from: two polylines of three points and one of
\* two (which also has a point list); an invalid polyline next to a valid
\* point list; an empty polyline string and no polyline with point lists
\* under either spelling of the keys; a point list with an incomplete point
\* and a point that is not an object, alone and next to a complete point; no
\* geometry at all; and a point list with a latitude that is not a number
ShapeItems ==
    { Shape(Polyline(<<<<42, -71>>, <<43, -71>>, <<44, -71>>>>), <<>>),
      Shape(Polyline(<<<<32, -61>>, <<33, -61>>, <<34, -61>>>>), <<>>),
      Shape(Polyline(<<<<52, -81>>, <<53, -81>>>>),
            <<Point(Num(1), NoCoord, Num(2), NoCoord, NoCoord)>>),
      Shape(InvalidPolyline,
            <<Point(Num(1), NoCoord, Num(2), NoCoord, NoCoord)>>),
      Shape(EmptyPolyline,
            <<Point(Num(10), NoCoord, Num(20), NoCoord, NoCoord),
              Point(NoCoord, NumStr(11), NoCoord, NoCoord, Num(21))>>),
      Shape(NoPolyline,
            <<Point(Num(10), NoCoord, NoCoord, NoCoord, NoCoord), NotAPoint>>),
      Shape(NoPolyline,
            <<Point(NoCoord, NoCoord, Num(20), NoCoord, NoCoord),
              Point(NoCoord, Num(12), NoCoord, Num(22), NoCoord)>>),
      Shape(NoPolyline, <<>>),
      Shape(NoPolyline,
            <<Point(BadCoord, NoCoord, Num(20), NoCoord, NoCoord)>>) }

InitShapes ==
    /\ status = ""
    /\ scheduled_dt = None
    /\ predicted_dt = None
    /\ threshold_minutes = 2
    /\ NoResults
    /\ Idle
    /\ iso_s = <<NoneStr, NoneStr>>
    /\ now = 1000
    /\ predictions_response = EmptyPayload
    /\ vehicles_response = EmptyPayload
    /\ alerts_response = EmptyPayload
    /\ shapes_response \in
          {Payload("absent", d, <<>>) : d \in SeqsUpTo(ShapeItems, MaxShapes)}

NextShapes ==
    \/ ParseRedLineShape
    \/ ParseRouteShapesMerged

SpecShapes == InitShapes /\ [][NextShapes]_vars

\* A point of a point list is complete: an object with a latitude and a
\* longitude under one of the spellings of the keys
Complete(pt) ==
    /\ pt.k = "dict"
    /\ pt.latitude # NoCoord \/ pt.lat # NoCoord
    /\ pt.longitude # NoCoord \/ pt.lon # NoCoord \/ pt.lng # NoCoord

\* Shape k of the payload decodes: from its polyline when it has one (a
\* non-empty string), otherwise from the complete points of its point list
DecodesTo(k) ==
    LET sh == shapes_response.data[k]
        pts == {i \in 1..Len(sh.points) : Complete(sh.points[i])}
    IN  IF sh.polyline.k \in {"valid", "invalid"}
        THEN IF sh.polyline.k = "valid" THEN Len(sh.polyline.coords) ELSE 0
        ELSE IF \E i \in pts : \E c \in {sh.points[i].latitude, sh.points[i].lat,
                     sh.points[i].longitude, sh.points[i].lon, sh.points[i].lng} :
                     c.k = "bad"
        THEN 0
        ELSE Cardinality(pts)

\* C18 as stated: parse_red_line_shape does not raise and returns, in input
\* order, one segment for each shape that decodes and none for a shape that
\* does not, such as one with an invalid polyline string or with a point
\* list of non-numeric or incomplete points.
C18_SegmentIffDecodes ==
    shapes_list.st # "unset" =>
        /\ shapes_list.st = "ok"
        /\ \A i, j \in 1..Len(shapes_list.rows) :
              i < j => shapes_list.rows[i].src < shapes_list.rows[j].src
        /\ \A k \in 1..Len(shapes_response.data) :
              (\E r \in RowsOf(shapes_list) : r.src = k) <=> DecodesTo(k) > 0
        /\ \A r \in RowsOf(shapes_list) :
              Len(r.lons) = DecodesTo(r.src) /\ Len(r.lats) = DecodesTo(r.src)

\* C17 as stated: parse_route_shapes_merged does not raise; it returns None
\* when no shape of the response decodes, and otherwise the decoded segment
\* with the most points, the first of them in input order on a tie.
C17_LongestSegment ==
    merged_shape.st # "unset" =>
        LET ks == {k \in 1..Len(shapes_response.data) : DecodesTo(k) > 0}
        IN  /\ merged_shape.st = "ok"
            /\ ks = {} => merged_shape.rows = <<>>
            /\ ks # {} =>
                  /\ Len(merged_shape.rows) = 1
                  /\ merged_shape.rows[1].src \in ks
                  /\ \A k \in ks :
                        \/ DecodesTo(k) < DecodesTo(merged_shape.rows[1].src)
                        \/ /\ DecodesTo(k) = DecodesTo(merged_shape.rows[1].src)
                           /\ merged_shape.rows[1].src <= k
                  /\ shapes_list.st = "ok" =>
                        merged_shape.rows[1] \in RowsOf(shapes_list)

----------------------------------------------------------------------------
(* The alerts flattener as a state machine *)

\* Most alerts in an alerts payload
MaxAlerts == 3

\* Alerts a payload is drawn from, around now = 5000: each mapped severity,
\* severities outside the map (0 and 7) and no severity; a description, only
\* a header, and no text; no active period, periods that have started, have
\* not started and have ended, an open-ended period, and a malformed start;
\* the alert of severity 0 has a first period that ended at now and a second
\* one that is running
AlertItems ==
    { Alert(1, 40, 0, 0, <<>>),
      Alert(2, 250, 10, 0, <<Period(ZStr(0, 4000), NoneStr)>>),
      Alert(3, 0, 0, 10, <<Period(ZStr(0, 4000), ZStr(0, 6000)),
                            Period(ZStr(0, 7000), NoneStr)>>),
      Alert(7, 0, 20, 10, <<Period(ZStr(0, 5000), ZStr(0, 5001))>>),
      Alert(0, 0, 0, 0, <<Period(ZStr(0, 4000), ZStr(0, 5000)),
                          Period(ZStr(0, 4000), NoneStr)>>),
      Alert(None, 30, 0, 0, <<Period(ZStr(0, 5001), NoneStr)>>),
      Alert(None, 0, 0, 0, <<Period(NoneStr, ZStr(0, 6000))>>),
      Alert(2, 30, 0, 0, <<Period(BadStr, NoneStr)>>) }

InitAlerts ==
    /\ status = ""
    /\ scheduled_dt = None
    /\ predicted_dt = None
    /\ threshold_minutes = 2
    /\ NoResults
    /\ Idle
    /\ iso_s = <<NoneStr, NoneStr>>
    /\ now = 5000
    /\ predictions_response = EmptyPayload
    /\ vehicles_response = EmptyPayload
    /\ shapes_response = EmptyPayload
    /\ alerts_response \in
          {Payload("absent", d, <<>>) : d \in SeqsUpTo(AlertItems, MaxAlerts)}

NextAlerts == ParseAlerts

SpecAlerts == InitAlerts /\ [][NextAlerts]_vars

\* C19 as stated: whatever the severity attribute of an alert is, the
\* Severity of its row is "Information", "Warning", "Emergency" or "Unknown".
C19_SeverityInEnum ==
    \A r \in RowsOf(alerts_df) :
        r.Severity \in {"Information", "Warning", "Emergency", "Unknown"}

\* The alert a row of alerts_df was made from
AlertOf(r) == alerts_response.data[r.src]

\* Period p has a start, has started at instant t and has not ended at t
Running(p, t) ==
    /\ StrTruthy(p.start)
    /\ _parse_iso(p.start) <= t
    /\ (~StrTruthy(p.end) \/ t < _parse_iso(p.end))

\* C28: the Status of an alert's row is "Active" exactly when the alert's
\* first active period has a start at or before now and either no end or an
\* end after now; with no active period, a first period without a start, one
\* that starts after now or one that has ended (now >= end) the Status is
\* "Inactive", whatever the later periods are.
C28_ActiveIffFirstPeriodRunning ==
    \A r \in RowsOf(alerts_df) :
        LET periods == AlertOf(r).active_period
        IN  /\ r.Status \in {"Active", "Inactive"}
            /\ r.Status = "Active" <=>
                  (periods # <<>> /\ Running(periods[1], now))
            /\ periods = <<>> => r.Status = "Inactive"
            /\ (periods # <<>> /\ ~StrTruthy(periods[1].start))
                  => r.Status = "Inactive"
            /\ (periods # <<>> /\ StrTruthy(periods[1].start)
                   /\ _parse_iso(periods[1].start) > now)
                  => r.Status = "Inactive"
            /\ (periods # <<>> /\ StrTruthy(periods[1].end)
                   /\ now >= _parse_iso(periods[1].end))
                  => r.Status = "Inactive"

\* Rows were made of an alert whose first period ended exactly at now while
\* its second period is running (Inactive), of an alert whose only period is
\* running (Active) and of an alert whose first period has no start (Inactive)
C28_Witness ==
    /\ alerts_df.st = "ok"
    /\ \E r \in RowsOf(alerts_df) :
          /\ Len(AlertOf(r).active_period) = 2
          /\ _parse_iso(AlertOf(r).active_period[1].end) = now
          /\ Running(AlertOf(r).active_period[2], now)
          /\ r.Status = "Inactive"
    /\ \E r \in RowsOf(alerts_df) :
          /\ Len(AlertOf(r).active_period) = 1
          /\ Running(AlertOf(r).active_period[1], now)
          /\ r.Status = "Active"
    /\ \E r \in RowsOf(alerts_df) :
          /\ AlertOf(r).active_period # <<>>
          /\ ~StrTruthy(AlertOf(r).active_period[1].start)
          /\ r.Status = "Inactive"

----------------------------------------------------------------------------
(* The time normaliser on its own: two calls of _parse_iso *)

\* Strings handed to _parse_iso.  Day 0 is 2024-01-01: 08:00-05:00, 13:00Z
\* and 14:00+01:00 are one instant, and so are 23:00-05:00, 04:00Z of the
\* next day and 00:00-04:00 of the next day; 08:00Z has the wall-clock
\* reading of the first string at another instant; naive strings of a
\* winter and a summer day; null, empty and malformed input
IsoStrings ==
    { OffsetStr(0, 28800, -18000), ZStr(0, 46800), OffsetStr(0, 50400, 3600),
      OffsetStr(0, 82800, -18000), ZStr(1, 14400), OffsetStr(1, 0, -14400),
      ZStr(0, 28800),
      NaiveStr(0, 28800), NaiveStr(182, 28800),
      NoneStr, EmptyStr, BadStr }

InitIso ==
    /\ status = ""
    /\ scheduled_dt = None
    /\ predicted_dt = None
    /\ threshold_minutes = 2
    /\ NoResults
    /\ Idle
    /\ now = 1000
    /\ predictions_response = EmptyPayload
    /\ vehicles_response = EmptyPayload
    /\ alerts_response = EmptyPayload
    /\ shapes_response = EmptyPayload
    /\ iso_s \in IsoStrings \X IsoStrings

\* One call of _parse_iso, on the first or on the second string
ParseIso ==
    /\ \E i \in {1, 2} :
          iso_dt' = [iso_dt EXCEPT ![i] =
                        IF _parse_iso_raises(iso_s[i]) THEN RaisedDt
                        ELSE OkDt(_parse_iso(iso_s[i]))]
    /\ UNCHANGED <<outsideVars, iso_s, statusVars, inputVars, resultVars>>

NextIso == ParseIso

SpecIso == InitIso /\ [][NextIso]_vars

\* The string carries its zone: a Z suffix or a UTC offset
OffsetBearing(str) == str.tz \in {"Z", "offset"}

\* The absolute instant an offset-bearing string denotes: its wall-clock
\* reading less its offset from UTC
Denotes(str) == str.day * SecondsPerDay + str.sec - str.off

\* C20: two offset-bearing (or Z-suffixed) strings that denote the same
\* absolute instant are mapped by _parse_iso to the same UTC instant,
\* whichever offsets they are written in.
C20_OffsetInvariant ==
    (/\ OffsetBearing(iso_s[1]) /\ OffsetBearing(iso_s[2])
     /\ Denotes(iso_s[1]) = Denotes(iso_s[2])
     /\ iso_dt[1].st # "unset" /\ iso_dt[2].st # "unset")
        => /\ iso_dt[1].st = "ok" /\ iso_dt[2].st = "ok"
           /\ iso_dt[1].dt # None
           /\ iso_dt[1].dt = iso_dt[2].dt

\* 08:00 at offset -05:00 and 13:00 Z of the same date were both parsed, to
\* the same instant
C20_Witness ==
    /\ iso_s = <<OffsetStr(0, 28800, -18000), ZStr(0, 46800)>>
    /\ iso_dt[1].st = "ok" /\ iso_dt[2].st = "ok"
    /\ iso_dt[1].dt = 46800
    /\ iso_dt[2].dt = 46800

\* Hours America/New_York is behind UTC on a day of 2024: 4 under daylight
\* time (March 10 to November 2), 5 otherwise
HoursBehindUTC(day) == IF day \in 69..306 THEN 4 ELSE 5

\* C21: _parse_iso returns None for a null or empty input, and for a
\* timezone-naive string the UTC instant of that wall-clock reading in
\* America/New_York: the reading plus 4 hours in summer and plus 5 hours in
\* winter, never the reading itself.
C21_NaiveIsNewYork ==
    \A i \in {1, 2} :
        iso_dt[i].st # "unset" =>
            /\ iso_s[i] \in {NoneStr, EmptyStr} => iso_dt[i] = OkDt(None)
            /\ iso_s[i].tz = "naive" =>
                  /\ iso_dt[i].st = "ok"
                  /\ iso_dt[i].dt =
                        iso_s[i].day * 86400 + iso_s[i].sec
                            + HoursBehindUTC(iso_s[i].day) * 3600
                  /\ iso_dt[i].dt # iso_s[i].day * 86400 + iso_s[i].sec

\* A naive 08:00 of July 1 was parsed to 12:00 UTC of that day, and an empty
\* string to None
C21_Witness ==
    /\ iso_s = <<NaiveStr(182, 28800), EmptyStr>>
    /\ iso_dt[1] = OkDt(182 * 86400 + 43200)
    /\ iso_dt[2] = OkDt(None)

----------------------------------------------------------------------------
(* The MBTA client as a state machine: each action is one call of a fetch
   function, that is one call of _request *)

\* No flattener has been called
NoParsing ==
    /\ status = ""
    /\ scheduled_dt = None
    /\ predicted_dt = None
    /\ threshold_minutes = 2
    /\ predictions_response = EmptyPayload
    /\ vehicles_response = EmptyPayload
    /\ alerts_response = EmptyPayload
    /\ shapes_response = EmptyPayload
    /\ now = 1000
    /\ NoResults
    /\ iso_s = <<NoneStr, NoneStr>>

\* MAP_ROUTE_IDS: the route ids of each display route of the map
MAP_ROUTE_IDS ==
    [name \in {"Red", "Green", "Blue", "Orange", "Silver"} |->
        CASE name = "Red" -> <<"Red">>
          [] name = "Green" -> <<"Green-B", "Green-C", "Green-D", "Green-E">>
          [] name = "Blue" -> <<"Blue">>
          [] name = "Orange" -> <<"Orange">>
          [] name = "Silver" -> <<"Silver">>]

\* Every route id a shapes fetch is made for
RouteIds ==
    UNION {{MAP_ROUTE_IDS[name][i] : i \in 1..Len(MAP_ROUTE_IDS[name])} :
              name \in DOMAIN MAP_ROUTE_IDS}

\* What a GET can meet: a timeout, a refused connection, and responses of
\* status 200, 204, 403, 404, 429 and 500 whose body is JSON or is not
HttpOutcomes ==
    {TransportError("Read timed out."), TransportError("Connection refused")}
    \cup {HttpResponse(c, v, EmptyPayload) :
              c \in {200, 204, 403, 404, 429, 500}, v \in BOOLEAN}
    \cup {HttpResponse(200, TRUE,
                       Payload("absent", <<Alert(1, 40, 0, 0, <<>>)>>, <<>>))}

InitRequest ==
    /\ NoParsing
    /\ MBTA_API_KEY \in KeyValues
    /\ http_log = <<>>
    /\ http_met = NoHttp
    /\ request_ret = NoRet
    /\ ReporterIdle
    /\ AppIdle

\* _request(path, params) for the GET get, meeting http
Request(get, http) ==
    /\ http_log' = _request_gets(MBTA_API_KEY, get)
    /\ http_met' = IF MBTA_API_KEY = "set" THEN http ELSE NoHttp
    /\ request_ret' = _request(MBTA_API_KEY, http)
    /\ UNCHANGED <<MBTA_API_KEY, parserVars, reporterVars, appVars>>

FetchAlerts == \E http \in HttpOutcomes : Request(fetch_alerts, http)

FetchPredictions == \E http \in HttpOutcomes : Request(fetch_predictions, http)

FetchPredictionsAllStops ==
    \E http \in HttpOutcomes : Request(fetch_predictions_all_stops, http)

FetchVehicles == \E http \in HttpOutcomes : Request(fetch_vehicles, http)

FetchShapes ==
    \E route_id \in RouteIds, http \in HttpOutcomes :
        Request(fetch_shapes(route_id), http)

NextRequest ==
    \/ FetchAlerts
    \/ FetchPredictions
    \/ FetchPredictionsAllStops
    \/ FetchVehicles
    \/ FetchShapes

SpecRequest == InitRequest /\ [][NextRequest]_vars

\* What a call returned is an error dict
IsErrorDict(ret) == "message" \in DOMAIN ret

----------------------------------------------------------------------------
(* AI Data Reporter Module/data_reporter.py: main() as a state machine, one
   action per stage of the run.  The module has its own copy of _request,
   the same text as the client's, and reads the same MBTA_API_KEY. *)

\* An entry of reporter_events
Event(kind, get) ==
    [kind |-> kind, path |-> get.path, stop |-> get.stop, route |-> get.route]

\* fetch_predictions_at_stop(stop_id)
fetch_predictions_at_stop(stop_id) == HttpGet("/predictions", stop_id, "Red")

STOP_ALEWIFE == "place-alfcl"

STOP_CENTRAL_SQ == "place-cntsq"

\* The four fetches of main(), in order
ReporterFetches ==
    << fetch_alerts, fetch_predictions_at_stop(STOP_ALEWIFE),
       fetch_predictions_at_stop(STOP_CENTRAL_SQ), fetch_vehicles >>

\* build_predictions_df raises AttributeError on a prediction that refers to
\* a schedule, trip or stop absent from included
build_predictions_df_raises(resp) ==
    /\ ~HasError(resp)
    /\ \E i \in 1..Len(resp.data) :
          LET lookup == _build_included_lookup(resp.included)
              item == resp.data[i]
          IN  \/ item.schedule # NoId /\ Get(lookup, "schedule", item.schedule) = Missing
              \/ item.trip # NoId /\ Get(lookup, "trip", item.trip) = Missing
              \/ item.stop # NoId /\ Get(lookup, "stop", item.stop) = Missing

\* What the GETs of main() can meet: a timeout, a 500, an empty document,
\* and for predictions a document with a prediction whose schedule is not
\* in included
ReporterOutcomes ==
    { TransportError("Read timed out."),
      HttpResponse(500, TRUE, EmptyPayload),
      HttpResponse(200, TRUE, EmptyPayload) }

ReporterPredictionOutcomes ==
    ReporterOutcomes \cup
    { HttpResponse(200, TRUE,
          Payload("absent",
                  <<Prediction(IntDir(0), ZStr(0, 1000), NoneStr, "s9", "t1", "v1", "p1")>>,
                  PredIncluded)) }

\* What the POST to Ollama Cloud can meet: an exception of requests, a status
\* other than 200, a body that is not JSON, a document without message, a
\* message without content, and a message with content (empty or not)
OllamaOutcomes ==
    {"exception", "status 500", "not json", "no message", "no content",
     "empty content", "content"}

query_ollama_cloud_any_json(key, o) ==
    IF key # "set" THEN [st |-> "raised", content |-> ""]
    ELSE IF o \in {"exception", "status 500", "not json"}
    THEN [st |-> "raised", content |-> ""]
    ELSE IF o \in {"no message", "no content", "empty content"}
    THEN [st |-> "ok", content |-> ""]
    ELSE [st |-> "ok", content |-> "report"]

\* query_ollama_cloud(user_content) when the POST meets o
query_ollama_cloud(key, o) ==
    IF key # "set" THEN [st |-> "raised", content |-> ""]
    ELSE IF o \in {"exception", "status 500", "not json", "no message", "no content"}
    THEN [st |-> "raised", content |-> ""]
    ELSE IF o = "empty content" THEN [st |-> "ok", content |-> ""]
    ELSE [st |-> "ok", content |-> "report"]

\* The POSTs query_ollama_cloud issues: none without a key
query_ollama_cloud_posts(key) ==
    IF key = "set" THEN <<Event("POST", HttpGet("/api/chat", "", ""))>> ELSE <<>>

InitReporter ==
    /\ NoParsing
    /\ MBTA_API_KEY \in KeyValues
    /\ OLLAMA_API_KEY \in KeyValues
    /\ http_log = <<>>
    /\ http_met = NoHttp
    /\ request_ret = NoRet
    /\ reporter_pc = "start"
    /\ reporter_resps = <<>>
    /\ report_text = NoReport
    /\ reporter_events = <<>>
    /\ AppIdle

\* main(), lines 509-512: the two keys
MainCheckKeys ==
    /\ reporter_pc = "start"
    /\ reporter_pc' = IF MBTA_API_KEY # "set" \/ OLLAMA_API_KEY # "set"
                      THEN "raised" ELSE "fetch"
    /\ UNCHANGED <<reporter_resps, report_text, reporter_events>>
    /\ UNCHANGED <<OLLAMA_API_KEY, clientVars, parserVars, appVars>>

\* main(), lines 515-518: the four fetches
MainFetch ==
    /\ reporter_pc = "fetch"
    /\ \E h1 \in ReporterOutcomes, h2 \in ReporterPredictionOutcomes,
          h3 \in ReporterPredictionOutcomes, h4 \in ReporterOutcomes :
          /\ reporter_resps' = << _request(MBTA_API_KEY, h1), _request(MBTA_API_KEY, h2),
                                  _request(MBTA_API_KEY, h3), _request(MBTA_API_KEY, h4) >>
          /\ reporter_events' =
                reporter_events
                    \o [i \in 1..Len(_request_gets(MBTA_API_KEY, ReporterFetches[1])) |->
                           Event("GET", ReporterFetches[1])]
                    \o [i \in 1..Len(_request_gets(MBTA_API_KEY, ReporterFetches[2])) |->
                           Event("GET", ReporterFetches[2])]
                    \o [i \in 1..Len(_request_gets(MBTA_API_KEY, ReporterFetches[3])) |->
                           Event("GET", ReporterFetches[3])]
                    \o [i \in 1..Len(_request_gets(MBTA_API_KEY, ReporterFetches[4])) |->
                           Event("GET", ReporterFetches[4])]
    /\ reporter_pc' = "check"
    /\ UNCHANGED <<report_text, OLLAMA_API_KEY, clientVars, parserVars, appVars>>

\* main(), lines 521-543: the error test on each response in order, then
\* the dataframes and the prompt
MainBuild ==
    /\ reporter_pc = "check"
    /\ reporter_pc' =
          IF \E i \in 1..4 : HasError(reporter_resps[i]) THEN "raised"
          ELSE IF \/ build_predictions_df_raises(reporter_resps[2])
                  \/ build_predictions_df_raises(reporter_resps[3])
          THEN "raised"
          ELSE "ask"
    /\ UNCHANGED <<reporter_resps, report_text, reporter_events>>
    /\ UNCHANGED <<OLLAMA_API_KEY, clientVars, parserVars, appVars>>

\* main(), line 546: query_ollama_cloud
MainQueryOllama ==
    /\ reporter_pc = "ask"
    /\ \E o \in OllamaOutcomes :
          /\ report_text' =
                [st |-> query_ollama_cloud(OLLAMA_API_KEY, o).st,
                 content |-> query_ollama_cloud(OLLAMA_API_KEY, o).content,
                 met |-> o]
          /\ reporter_pc' = IF report_text'.st = "ok" THEN "write" ELSE "raised"
    /\ reporter_events' = reporter_events \o query_ollama_cloud_posts(OLLAMA_API_KEY)
    /\ UNCHANGED <<reporter_resps, OLLAMA_API_KEY, clientVars, parserVars, appVars>>

\* main(), lines 549-550: write_report_docx saves the document
MainWriteReport ==
    /\ reporter_pc = "write"
    /\ reporter_events' =
          Append(reporter_events, Event("save", HttpGet("reports/", "", "")))
    /\ reporter_pc' = "done"
    /\ UNCHANGED <<reporter_resps, report_text>>
    /\ UNCHANGED <<OLLAMA_API_KEY, clientVars, parserVars, appVars>>

NextReporter ==
    \/ MainCheckKeys
    \/ MainFetch
    \/ MainBuild
    \/ MainQueryOllama
    \/ MainWriteReport

SpecReporter == InitReporter /\ [][NextReporter]_vars

\* Positions of the events of a kind in reporter_events
EventsOf(kind) ==
    {i \in 1..Len(reporter_events) : reporter_events[i].kind = kind}

\* C25: in a run of main(), a missing MBTA or Ollama key raises before any
\* fetch; an error in any of the four MBTA fetches raises before the Ollama
\* call and before a document is written; and the document is saved only
\* after all four fetches succeeded and Ollama returned message content.
C25_ReportOnlyAfterAll ==
    /\ (MBTA_API_KEY # "set" \/ OLLAMA_API_KEY # "set") =>
          /\ reporter_events = <<>>
          /\ reporter_pc \in {"start", "raised"}
    /\ (reporter_resps # <<>> /\ \E i \in 1..4 : HasError(reporter_resps[i])) =>
          /\ EventsOf("POST") = {}
          /\ EventsOf("save") = {}
          /\ reporter_pc \in {"check", "raised"}
    /\ EventsOf("save") # {} =>
          /\ Cardinality(EventsOf("GET")) = 4
          /\ \A i \in 1..4 : ~HasError(reporter_resps[i])
          /\ report_text.st = "ok"
          /\ report_text.met \in {"content", "empty content"}
          /\ Cardinality(EventsOf("POST")) = 1
          /\ \A g \in EventsOf("GET"), q \in EventsOf("POST"), w \in EventsOf("save") :
                g < q /\ q < w

\* A run saved its report after four GETs and one POST
C25_Witness ==
    /\ reporter_pc = "done"
    /\ Len(reporter_events) = 6
    /\ reporter_events[5].kind = "POST"
    /\ reporter_events[6].kind = "save"
    /\ report_text.content = "report"

\* A run raised on a failed vehicles fetch after its four GETs, the other
\* three fetches having succeeded
C25_RaisedOnLastFetch ==
    /\ reporter_pc = "raised"
    /\ Len(reporter_events) = 4
    /\ HasError(reporter_resps[4])
    /\ \A i \in 1..3 : ~HasError(reporter_resps[i])

----------------------------------------------------------------------------
(* The Shiny application as a state machine.  One action is one run of an
   effect, or one event from outside: a click, a change of an input, the
   expiry of reactive.invalidate_later.  The reactive graph follows Shiny:
   a run of an effect depends on the reactive sources it read; setting a
   source to another value invalidates the runs that read it, the running
   one included; reactive.event runs its handler isolated and ignores the
   button's initial 0; invalidated effects run one at a time, in any order,
   until none is left, and only then is the next event taken; an effect that
   raises ends the session. *)

\* Most clicks of "Run API query"
MaxClicks == 2

\* Most runs of _do_refresh
MaxCycles == 3

\* Most changes of the refresh interval, and of the map layers
MaxIntervalChanges == 2

MaxLayerChanges == 1

\* Most consecutive runs of _fetch_extra_map_layers that fetch
MaxLayerRuns == 3

\* datetime.now(timezone.utc) as the flatteners read it during a refresh
AppNow == 1000

\* Values of the refresh interval input: empty, 0, 0.1 and 2 minutes
IntervalValues == {NoInterval, 0, 1, 20}

\* Selections of the map layers input
MapRouteChoices == {<<"Red">>, <<"Red", "Blue">>, <<"Green">>}

\* interval_min is None or interval_min <= 0
IntervalOff(interval_min) == interval_min = NoInterval \/ interval_min <= 0

\* max(float(interval_min), MIN_AUTO_REFRESH_MINUTES) * 60, in seconds
TimerDelay(interval_min) ==
    (IF interval_min > MIN_AUTO_REFRESH_MINUTES THEN interval_min
     ELSE MIN_AUTO_REFRESH_MINUTES) * 6

\* What the GETs of a refresh can meet.  The failing status differs from one
\* endpoint to the next, so that the messages differ.
AlertsDown == HttpResponse(500, TRUE, EmptyPayload)

AlertsUp ==
    HttpResponse(200, TRUE,
        Payload("absent",
            <<Alert(2, 250, 10, 0, <<Period(ZStr(0, 900), NoneStr)>>)>>, <<>>))

PredictionsDown == HttpResponse(503, TRUE, EmptyPayload)

PredictionsUp ==
    HttpResponse(200, TRUE,
        Payload("absent",
            <<Prediction(IntDir(0), ZStr(0, 1120), ZStr(0, 1100),
                         "s1", "t1", "v1", "p1")>>,
            PredIncluded))

\* A prediction whose schedule is not in included: parse_departures raises
PredictionsDangling ==
    HttpResponse(200, TRUE,
        Payload("absent",
            <<Prediction(IntDir(0), ZStr(0, 1120), ZStr(0, 1100),
                         "s9", "t1", "v1", "p1")>>,
            PredIncluded))

VehiclesDown == HttpResponse(429, TRUE, EmptyPayload)

VehiclesUp ==
    HttpResponse(200, TRUE,
        Payload("absent",
            <<Vehicle("v1", "p1", "t1", Num(42), Num(-71), Num(90), NoPosition)>>,
            PredIncluded))

ShapesDown == HttpResponse(404, TRUE, EmptyPayload)

ShapesUp ==
    HttpResponse(200, TRUE,
        Payload("absent",
            <<Shape(Polyline(<<<<42, -71>>, <<43, -71>>>>), <<>>)>>, <<>>))

\* A shapes document whose only shape has no geometry
ShapesBare ==
    HttpResponse(200, TRUE, Payload("absent", <<Shape(NoPolyline, <<>>)>>, <<>>))

AllStopsDown == TransportError("Read timed out.")

AllStopsUp ==
    HttpResponse(200, TRUE,
        Payload("absent",
            <<Prediction(IntDir(0), NoneStr, ZStr(0, 1130),
                         "s1", "t1", "v1", "p1")>>,
            PredIncluded))

\* An all-stops prediction whose schedule is not in included:
\* _next_stop_by_vehicle raises
AllStopsDangling ==
    HttpResponse(200, TRUE,
        Payload("absent",
            <<Prediction(IntDir(0), NoneStr, ZStr(0, 1130),
                         "s9", "t1", "v1", "p1")>>,
            PredIncluded))

Meets(alerts, predictions, vehicles, shapes, all_stops) ==
    [alerts |-> alerts, predictions |-> predictions, vehicles |-> vehicles,
     shapes |-> shapes, all_stops |-> all_stops]

\* What the five GETs of one refresh meet: everything up; Red without
\* geometry and the all-stops fetch timing out; each endpoint as the first
\* one down, alone or with later ones down as well; a predictions document
\* and an all-stops document at which a flattener raises
RefreshOutcomes ==
    { Meets(AlertsUp, PredictionsUp, VehiclesUp, ShapesUp, AllStopsUp),
      Meets(AlertsUp, PredictionsUp, VehiclesUp, ShapesBare, AllStopsDown),
      Meets(AlertsDown, PredictionsUp, VehiclesUp, ShapesUp, AllStopsUp),
      Meets(AlertsUp, PredictionsDown, VehiclesUp, ShapesDown, AllStopsUp),
      Meets(AlertsUp, PredictionsUp, VehiclesDown, ShapesDown, AllStopsUp),
      Meets(AlertsUp, PredictionsUp, VehiclesUp, ShapesDown, AllStopsUp),
      Meets(AlertsDown, PredictionsDown, VehiclesDown, ShapesDown, AllStopsDown),
      Meets(AlertsUp, PredictionsDangling, VehiclesUp, ShapesUp, AllStopsUp),
      Meets(AlertsUp, PredictionsUp, VehiclesUp, ShapesUp, AllStopsDangling) }

\* What a shapes GET of _fetch_extra_map_layers can meet: a 404, a document
\* with a shape that decodes, a document whose shape has no geometry
LayerOutcomes ==
    { HttpResponse(404, TRUE, EmptyPayload),
      HttpResponse(200, TRUE,
          Payload("absent",
              <<Shape(Polyline(<<<<32, -61>>, <<33, -61>>>>), <<>>)>>, <<>>)),
      HttpResponse(200, TRUE,
          Payload("absent", <<Shape(NoPolyline, <<>>)>>, <<>>)) }

\* resp.get("message", "API error") when resp has error set, else nothing
ErrorMessage(resp) == IF HasError(resp) THEN resp.message ELSE ""

err_last_failing(alerts_resp, predictions_resp, vehicles_resp, shapes_resp) ==
    IF HasError(shapes_resp) THEN shapes_resp.message
    ELSE IF HasError(vehicles_resp) THEN vehicles_resp.message
    ELSE IF HasError(predictions_resp) THEN predictions_resp.message
    ELSE IF HasError(alerts_resp) THEN alerts_resp.message
    ELSE NoError

\* err of _do_refresh: the if/elif chain over the four responses
err(alerts_resp, predictions_resp, vehicles_resp, shapes_resp) ==
    IF HasError(alerts_resp) THEN alerts_resp.message
    ELSE IF HasError(predictions_resp) THEN predictions_resp.message
    ELSE IF HasError(vehicles_resp) THEN vehicles_resp.message
    ELSE IF HasError(shapes_resp) THEN shapes_resp.message
    ELSE NoError

\* shapes_by_route with name set to geoms
WithRoute(cache, name, geoms) ==
    [n \in DOMAIN cache \cup {name} |-> IF n = name THEN geoms ELSE cache[n]]

\* How far lines 189-212 of _do_refresh came: 0 when a fetch failed, then
\* one per statement completed, below 10 when a flattener raised
_do_refresh_stage(e, alerts, departures, near_term, future, red_shapes, enriched) ==
    IF e # NoError THEN 0
    ELSE IF alerts.st = "raised" THEN 1
    ELSE IF departures.st = "raised" THEN 2
    ELSE IF near_term.st = "raised" THEN 3
    ELSE IF future.st = "raised" THEN 4
    ELSE IF red_shapes.st = "raised" THEN 6
    ELSE IF enriched.st = "raised" THEN 9
    ELSE 10

\* The reactive values after cycle c of _do_refresh came as far as stage
_do_refresh_sets(c, stage, e, errors, alerts, departures, near_term, future, basic, red_shapes, enriched) ==
    [stage |-> stage,
     raised |-> stage \in 1..9,
     errors |-> errors,
     gets |-> _request_gets(MBTA_API_KEY, fetch_alerts)
                \o _request_gets(MBTA_API_KEY, fetch_predictions)
                \o _request_gets(MBTA_API_KEY, fetch_vehicles)
                \o _request_gets(MBTA_API_KEY, fetch_shapes("Red"))
                \o (IF stage >= 9
                    THEN _request_gets(MBTA_API_KEY, fetch_predictions_all_stops)
                    ELSE <<>>),
     api_error |-> IF stage = 0 THEN e ELSE NoError,
     df_alerts |-> IF stage >= 2 THEN Tagged(c, alerts.rows) ELSE df_alerts,
     df_departures |->
         IF stage >= 3 THEN Tagged(c, departures.rows) ELSE df_departures,
     df_near_term |->
         IF stage >= 4 THEN Tagged(c, near_term.rows) ELSE df_near_term,
     df_future |-> IF stage >= 5 THEN Tagged(c, future.rows) ELSE df_future,
     vehicles_map |-> IF stage >= 10 THEN Tagged(c, enriched.rows)
                      ELSE IF stage >= 6 THEN Tagged(c, basic.rows)
                      ELSE vehicles_map,
     shapes_by_route |->
         IF stage >= 7 /\ red_shapes.rows # <<>>
         THEN WithRoute(shapes_by_route, "Red", Tagged(c, red_shapes.rows))
         ELSE shapes_by_route,
     last_api_call_time |-> IF stage >= 8 THEN c ELSE last_api_call_time]

\* Lines 186-212 of _do_refresh, given err and what the flatteners return
_do_refresh_parsed(c, e, errors, alerts, departures, near_term, future, basic, red_shapes, enriched) ==
    _do_refresh_sets(c,
        _do_refresh_stage(e, alerts, departures, near_term, future,
                          red_shapes, enriched),
        e, errors, alerts, departures, near_term, future, basic, red_shapes,
        enriched)

\* Lines 177-212 of _do_refresh, given the five responses
_do_refresh_fetched(c, departures, alerts_resp, predictions_resp, vehicles_resp, shapes_resp, predictions_all_resp) ==
    _do_refresh_parsed(c,
        err(alerts_resp, predictions_resp, vehicles_resp, shapes_resp),
        << ErrorMessage(alerts_resp), ErrorMessage(predictions_resp),
           ErrorMessage(vehicles_resp), ErrorMessage(shapes_resp) >>,
        parse_alerts(alerts_resp, AppNow),
        departures,
        parse_near_term_arrivals(predictions_resp, vehicles_resp, AppNow),
        parse_future_arrivals(predictions_resp, vehicles_resp, AppNow),
        parse_vehicles_for_map(vehicles_resp),
        parse_red_line_shape(shapes_resp),
        parse_vehicles_for_map_enriched(vehicles_resp, predictions_all_resp,
                                        AppNow))

\* predictions_all_resp of lines 207-209: None for an error response
AllStopsOrNone(all_resp) == IF HasError(all_resp) THEN EmptyPayload ELSE all_resp

\* _do_refresh() as cycle c, its GETs meeting h and parse_departures returning
\* departures
_do_refresh(h, departures, c) ==
    _do_refresh_fetched(c, departures,
        _request(MBTA_API_KEY, h.alerts),
        _request(MBTA_API_KEY, h.predictions),
        _request(MBTA_API_KEY, h.vehicles),
        _request(MBTA_API_KEY, h.shapes),
        AllStopsOrNone(_request(MBTA_API_KEY, h.all_stops)))

\* The reactive values and the trace after the cycle r
Refreshed(r) ==
    /\ api_error' = r.api_error
    /\ df_alerts' = r.df_alerts
    /\ df_departures' = r.df_departures
    /\ df_near_term' = r.df_near_term
    /\ df_future' = r.df_future
    /\ vehicles_map' = r.vehicles_map
    /\ shapes_by_route' = r.shapes_by_route
    /\ last_api_call_time' = r.last_api_call_time
    /\ cycle' = cycle + 1
    /\ cycle_errors' = r.errors
    /\ http_log' = r.gets

\* The effects other than e whose last run read one of the sources writes
Invalidated(e, writes) == {f \in Effects \ {e} : deps[f] \cap writes # {}}

\* The reactive graph after a run of effect e that read the sources reads
\* and set the sources writes; selfinv: it set a source it had read, which
\* invalidates the run itself; later: the delay it gave to
\* reactive.invalidate_later, None when it did not call it
Flushed(e, reads, writes, selfinv, later) ==
    LET others == Invalidated(e, writes)
    IN  /\ session' = session
        /\ pending' = (pending \ {e}) \cup others \cup (IF selfinv THEN {e} ELSE {})
        /\ deps' = [f \in Effects |->
                      IF f = e THEN (IF selfinv THEN {} ELSE reads)
                      ELSE IF f \in others THEN {} ELSE deps[f]]
        /\ cause' = [f \in Effects |->
                       IF f = e THEN (IF selfinv THEN "self" ELSE "")
                       ELSE IF f \in others
                       THEN (IF e = "_fetch_and_parse" THEN "click" ELSE "write")
                       ELSE cause[f]]
        /\ invalidate_later' =
              IF e = "_auto_refresh_timer" THEN (IF selfinv THEN None ELSE later)
              ELSE IF "_auto_refresh_timer" \in others THEN None
              ELSE invalidate_later

\* The reactive graph after an effect raised: the session is closed
Closed ==
    /\ session' = "closed"
    /\ pending' = {}
    /\ deps' = [f \in Effects |-> {}]
    /\ cause' = [f \in Effects |-> ""]
    /\ invalidate_later' = None

\* The reactive graph after an event from outside set the source src
Notified(src, why) ==
    LET hit == {f \in Effects : src \in deps[f]}
    IN  /\ session' = session
        /\ pending' = hit
        /\ deps' = [f \in Effects |-> IF f \in hit THEN {} ELSE deps[f]]
        /\ cause' = [f \in Effects |-> IF f \in hit THEN why ELSE cause[f]]
        /\ invalidate_later' =
              IF "_auto_refresh_timer" \in hit THEN None ELSE invalidate_later

InitApp ==
    /\ NoParsing
    /\ MBTA_API_KEY = "set"
    /\ http_log = <<>>
    /\ http_met = NoHttp
    /\ request_ret = NoRet
    /\ ReporterIdle
    /\ AppStart

\* The user clicks "Run API query"
Click ==
    /\ session = "open"
    /\ pending = {}
    /\ refresh < MaxClicks
    /\ refresh' = refresh + 1
    /\ Notified("refresh", "click")
    /\ click_trace' = [live |-> TRUE, auto |-> ~IntervalOff(refresh_interval_min),
                       refreshes |-> 0, timer_runs |-> 0]
    /\ UNCHANGED <<refresh_interval_min, map_routes, changes, snapshotVars,
                   skip_next_timer_refresh>>
    /\ UNCHANGED <<cycle, cycle_errors, skip_origin, last_timer_run, last_layers_run>>
    /\ UNCHANGED <<clientVars, reporterVars, parserVars>>

\* The user changes the auto-refresh interval
SetInterval ==
    /\ session = "open"
    /\ pending = {}
    /\ changes.interval < MaxIntervalChanges
    /\ changes' = [changes EXCEPT !.interval = @ + 1]
    /\ \E v \in IntervalValues \ {refresh_interval_min} :
          refresh_interval_min' = v
    /\ Notified("refresh_interval_min", "interval")
    /\ click_trace' = [click_trace EXCEPT !.live = FALSE]
    /\ UNCHANGED <<refresh, map_routes, snapshotVars, skip_next_timer_refresh>>
    /\ UNCHANGED <<cycle, cycle_errors, skip_origin, last_timer_run, last_layers_run>>
    /\ UNCHANGED <<clientVars, reporterVars, parserVars>>

\* The user changes the selected map layers
SetMapRoutes ==
    /\ session = "open"
    /\ pending = {}
    /\ changes.map_routes < MaxLayerChanges
    /\ changes' = [changes EXCEPT !.map_routes = @ + 1]
    /\ \E selected \in MapRouteChoices \ {map_routes} : map_routes' = selected
    /\ Notified("map_routes", "map_routes")
    /\ UNCHANGED <<refresh, refresh_interval_min, snapshotVars,
                   skip_next_timer_refresh, traceVars>>
    /\ UNCHANGED <<clientVars, reporterVars, parserVars>>

\* The delay given to reactive.invalidate_later has passed
TimerFires ==
    /\ session = "open"
    /\ pending = {}
    /\ invalidate_later # None
    /\ session' = session
    /\ pending' = {"_auto_refresh_timer"}
    /\ deps' = [deps EXCEPT !["_auto_refresh_timer"] = {}]
    /\ cause' = [cause EXCEPT !["_auto_refresh_timer"] = "timer"]
    /\ invalidate_later' = None
    /\ click_trace' = [click_trace EXCEPT !.live = FALSE]
    /\ UNCHANGED <<inputValues, snapshotVars, skip_next_timer_refresh>>
    /\ UNCHANGED <<cycle, cycle_errors, skip_origin, last_timer_run, last_layers_run>>
    /\ UNCHANGED <<clientVars, reporterVars, parserVars>>

\* _fetch_and_parse after its _do_refresh made the cycle r: it set
\* skip_next_timer_refresh and, from line 204 on, shapes_by_route
FetchAndParseRefreshed(r) ==
    /\ Refreshed(r)
    /\ IF r.raised THEN Closed
       ELSE Flushed("_fetch_and_parse", {"refresh"},
                    (IF skip_next_timer_refresh THEN {}
                     ELSE {"skip_next_timer_refresh"})
                    \cup (IF r.stage >= 7 THEN {"shapes_by_route"} ELSE {}),
                    FALSE, None)

\* A run of _fetch_and_parse
RunFetchAndParse ==
    /\ session = "open"
    /\ "_fetch_and_parse" \in pending
    /\ IF refresh = 0
       THEN /\ Flushed("_fetch_and_parse", {"refresh"}, {}, FALSE, None)
            /\ UNCHANGED <<snapshotVars, skip_next_timer_refresh, traceVars, http_log>>
       ELSE /\ cycle < MaxCycles
            /\ \E h \in RefreshOutcomes :
               \E departures \in parse_departures(_request(MBTA_API_KEY, h.predictions)) :
                  FetchAndParseRefreshed(_do_refresh(h, departures, cycle + 1))
            /\ click_trace' = [click_trace EXCEPT !.refreshes = @ + 1]
            /\ skip_next_timer_refresh' = TRUE
            /\ skip_origin' =
                  IF IntervalOff(refresh_interval_min) THEN "off" ELSE "on"
            /\ UNCHANGED <<last_timer_run, last_layers_run>>
    /\ UNCHANGED <<inputValues, MBTA_API_KEY, requestVars, reporterVars, parserVars>>

\* What a run of _auto_refresh_timer records in last_timer_run
TimerRun(refreshed, delay, consumed) ==
    [ran |-> TRUE, interval |-> refresh_interval_min, refreshed |-> refreshed,
     delay |-> delay, consumed |-> consumed,
     cause |-> cause["_auto_refresh_timer"],
     gap |-> IF cause["_auto_refresh_timer"] = "timer" THEN last_timer_run.delay
             ELSE None]

\* _auto_refresh_timer after its _do_refresh made the cycle r: from line
\* 201 on it has read shapes_by_route, and from line 204 on set it
AutoRefreshTimerRefreshed(r, delay_seconds) ==
    /\ Refreshed(r)
    /\ IF r.raised THEN Closed
       ELSE Flushed("_auto_refresh_timer",
                    {"refresh", "refresh_interval_min", "skip_next_timer_refresh"}
                    \cup (IF r.stage >= 7 THEN {"shapes_by_route"} ELSE {}),
                    IF r.stage >= 7 THEN {"shapes_by_route"} ELSE {},
                    r.stage >= 7, delay_seconds)

\* A run of _auto_refresh_timer
RunAutoRefreshTimer ==
    /\ session = "open"
    /\ "_auto_refresh_timer" \in pending
    /\ LET interval_min == refresh_interval_min
           delay_seconds == TimerDelay(interval_min)
       IN  IF IntervalOff(interval_min)
           THEN /\ Flushed("_auto_refresh_timer",
                           {"refresh", "refresh_interval_min"}, {}, FALSE, None)
                /\ last_timer_run' = TimerRun(FALSE, None, "")
                /\ click_trace' = [click_trace EXCEPT !.timer_runs = @ + 1]
                /\ http_log' = <<>>
                /\ UNCHANGED <<snapshotVars, skip_next_timer_refresh, cycle,
                               cycle_errors, skip_origin>>
           ELSE IF skip_next_timer_refresh
           THEN /\ skip_next_timer_refresh' = FALSE
                /\ skip_origin' = ""
                /\ Flushed("_auto_refresh_timer",
                           {"refresh", "refresh_interval_min",
                            "skip_next_timer_refresh"},
                           {"skip_next_timer_refresh"}, TRUE, delay_seconds)
                /\ last_timer_run' = TimerRun(FALSE, delay_seconds, skip_origin)
                /\ click_trace' = [click_trace EXCEPT !.timer_runs = @ + 1]
                /\ http_log' = <<>>
                /\ UNCHANGED <<snapshotVars, cycle, cycle_errors>>
           ELSE /\ cycle < MaxCycles
                /\ \E h \in RefreshOutcomes :
                   \E departures \in
                         parse_departures(_request(MBTA_API_KEY, h.predictions)) :
                      AutoRefreshTimerRefreshed(
                          _do_refresh(h, departures, cycle + 1), delay_seconds)
                /\ last_timer_run' = TimerRun(TRUE, delay_seconds, "")
                /\ click_trace' = [click_trace EXCEPT !.refreshes = @ + 1,
                                                      !.timer_runs = @ + 1]
                /\ UNCHANGED <<skip_next_timer_refresh, skip_origin>>
    /\ UNCHANGED last_layers_run
    /\ UNCHANGED <<inputValues, MBTA_API_KEY, requestVars, reporterVars, parserVars>>

\* [r for r in selected if r not in cache and r in MAP_ROUTE_IDS]
to_fetch(selected, cache) ==
    SelectSeq(selected,
              LAMBDA r : r \notin DOMAIN cache /\ r \in DOMAIN MAP_ROUTE_IDS)

\* all_geoms of a display route after its first n route ids, resp[rid]
\* being what fetch_shapes(rid) returned
RECURSIVE all_geoms(_, _, _)
all_geoms(ids, resp, n) ==
    IF n = 0 THEN <<>>
    ELSE IF ~HasError(resp[ids[n]])
    THEN all_geoms(ids, resp, n - 1) \o parse_red_line_shape(resp[ids[n]]).rows
    ELSE all_geoms(ids, resp, n - 1)

\* cache after the loop over the first n names of to_fetch
RECURSIVE FetchedLayers(_, _, _, _)
FetchedLayers(names, resp, cache, n) ==
    IF n = 0 THEN cache
    ELSE LET before == FetchedLayers(names, resp, cache, n - 1)
             ids == MAP_ROUTE_IDS[names[n]]
             geoms == all_geoms(ids, resp, Len(ids))
         IN  IF geoms # <<>> THEN WithRoute(before, names[n], Tagged(0, geoms))
             ELSE before

\* The route ids fetched for the first n names of to_fetch, in order
RECURSIVE LayerIds(_, _)
LayerIds(names, n) ==
    IF n = 0 THEN <<>> ELSE LayerIds(names, n - 1) \o MAP_ROUTE_IDS[names[n]]

\* A run of _fetch_extra_map_layers
RunFetchExtraMapLayers ==
    /\ session = "open"
    /\ "_fetch_extra_map_layers" \in pending
    /\ LET names == to_fetch(map_routes, shapes_by_route)
           ids == LayerIds(names, Len(names))
           why == cause["_fetch_extra_map_layers"]
       IN  IF names = <<>>
           THEN /\ Flushed("_fetch_extra_map_layers",
                           {"map_routes", "shapes_by_route"}, {}, FALSE, None)
                /\ last_layers_run' =
                      [ran |-> TRUE, cause |-> why, fetched |-> <<>>, runs |-> 0]
                /\ http_log' = <<>>
                /\ UNCHANGED shapes_by_route
           ELSE /\ last_layers_run.runs < MaxLayerRuns
                /\ \E h \in [{ids[i] : i \in 1..Len(ids)} -> LayerOutcomes] :
                      LET resp == [rid \in DOMAIN h |-> _request(MBTA_API_KEY, h[rid])]
                      IN  shapes_by_route' =
                              FetchedLayers(names, resp, shapes_by_route, Len(names))
                /\ http_log' = [i \in 1..Len(ids) |-> fetch_shapes(ids[i])]
                /\ last_layers_run' =
                      [ran |-> TRUE, cause |-> why, fetched |-> ids,
                       runs |-> last_layers_run.runs + 1]
                /\ Flushed("_fetch_extra_map_layers",
                           {"map_routes", "shapes_by_route"},
                           {"shapes_by_route"}, TRUE, None)
    /\ UNCHANGED <<api_error, df_alerts, df_departures, df_near_term, df_future,
                   vehicles_map, last_api_call_time, skip_next_timer_refresh>>
    /\ UNCHANGED <<cycle, cycle_errors, click_trace, skip_origin, last_timer_run>>
    /\ UNCHANGED <<inputValues, MBTA_API_KEY, requestVars, reporterVars, parserVars>>

\* The session with the user clicking and setting the refresh interval
NextApp ==
    \/ Click
    \/ SetInterval
    \/ TimerFires
    \/ RunFetchAndParse
    \/ RunAutoRefreshTimer
    \/ RunFetchExtraMapLayers

SpecApp == InitApp /\ [][NextApp]_vars

\* The session with the user clicking and selecting map layers, the
\* auto-refresh left off
NextLayers ==
    \/ Click
    \/ SetMapRoutes
    \/ RunFetchAndParse
    \/ RunAutoRefreshTimer
    \/ RunFetchExtraMapLayers

SpecLayers == InitApp /\ [][NextLayers]_vars

\* The first of the four responses of the last cycle that has error set
FirstFailing(errors) ==
    CHOOSE i \in 1..4 : errors[i] # "" /\ \A j \in 1..(i - 1) : errors[j] = ""

\* The four GETs every cycle starts with
PrimaryGets == <<fetch_alerts, fetch_predictions, fetch_vehicles, fetch_shapes("Red")>>

\* C22: a _do_refresh cycle in which one of the four primary responses has
\* error set sets api_error to the message of the first such response in the
\* order alerts, predictions, vehicles, shapes, leaves df_alerts,
\* df_departures, df_near_term, df_future, vehicles_map, shapes_by_route and
\* last_api_call_time as they were, and issues the four primary GETs once
\* each and no all-stops GET.
C22_FetchErrorKeepsSnapshot ==
    [][ (cycle' = cycle + 1 /\ \E i \in 1..4 : cycle_errors'[i] # "") =>
            /\ api_error' = cycle_errors'[FirstFailing(cycle_errors')]
            /\ UNCHANGED <<df_alerts, df_departures, df_near_term, df_future,
                           vehicles_map, shapes_by_route, last_api_call_time>>
            /\ http_log' = PrimaryGets ]_vars

\* The second cycle met predictions and shapes down after a first cycle that
\* succeeded: api_error is the predictions message and the snapshot is still
\* the one of cycle 1
C22_Witness ==
    /\ cycle = 2
    /\ cycle_errors[1] = "" /\ cycle_errors[2] # ""
    /\ cycle_errors[3] = "" /\ cycle_errors[4] # ""
    /\ api_error = "API request failed: status 503"
    /\ df_alerts.cycle = 1 /\ df_alerts.value # <<>>
    /\ vehicles_map.cycle = 1
    /\ "Red" \in DOMAIN shapes_by_route
    /\ last_api_call_time = 1
    /\ http_log = PrimaryGets

\* C23 as stated: with auto-refresh on, the runs that follow one click (the
\* handler and the timer effect, in either order) make exactly one
\* _do_refresh: never more than one, and one once no effect is left to run.
C23_OneRefreshPerClick ==
    (click_trace.live /\ click_trace.auto /\ session = "open") =>
        /\ click_trace.refreshes <= 1
        /\ pending = {} => click_trace.refreshes = 1

\* C26 as stated: whatever cycles have run, df_alerts, df_departures,
\* df_near_term, df_future and vehicles_map were made from the responses of
\* one and the same cycle.
C26_SnapshotFromOneCycle ==
    /\ df_departures.cycle = df_alerts.cycle
    /\ df_near_term.cycle = df_alerts.cycle
    /\ df_future.cycle = df_alerts.cycle
    /\ vehicles_map.cycle = df_alerts.cycle

\* The display route a route id belongs to
DisplayRoute(rid) ==
    CHOOSE name \in DOMAIN MAP_ROUTE_IDS :
        \E i \in 1..Len(MAP_ROUTE_IDS[name]) : MAP_ROUTE_IDS[name][i] = rid

\* C27 as stated: a run of _fetch_extra_map_layers fetches each route id of
\* the selected display routes at most once and only for selected routes,
\* and a run that the effect's own write to shapes_by_route caused fetches
\* nothing, so that the effect comes to rest also when a fetch failed or
\* decoded to no geometry.
C27_LayersQuiesce ==
    last_layers_run.ran =>
        LET fetched == last_layers_run.fetched
        IN  /\ \A i, j \in 1..Len(fetched) : fetched[i] = fetched[j] => i = j
            /\ \A i \in 1..Len(fetched) :
                  \E k \in 1..Len(map_routes) : map_routes[k] = DisplayRoute(fetched[i])
            /\ last_layers_run.cause = "self" => fetched = <<>>

\* C29 as stated: a run of the timer effect with the interval null or <= 0
\* does not refresh and arms no timer; a run with an interval above zero
\* gives max(interval, 0.5) minutes to reactive.invalidate_later; and a run
\* of the timer effect that no click and no change of the interval caused
\* comes no sooner than 30 seconds after the run before it.
C29_TimerNeverEarly ==
    /\ invalidate_later # None => invalidate_later >= 30
    /\ last_timer_run.ran =>
          /\ IntervalOff(last_timer_run.interval) =>
                ~last_timer_run.refreshed /\ last_timer_run.delay = None
          /\ ~IntervalOff(last_timer_run.interval) =>
                /\ last_timer_run.delay = TimerDelay(last_timer_run.interval)
                /\ last_timer_run.delay >= 30
          /\ \/ last_timer_run.cause \in {"start", "click", "interval"}
             \/ last_timer_run.cause = "timer" /\ last_timer_run.gap >= 30

\* C30 as stated: while skip_next_timer_refresh is true no timer run has
\* followed the most recent click, and no timer run skips its refresh on a
\* flag that a click made while auto-refresh was off had set.
C30_SkipOnlyForItsClick ==
    /\ skip_next_timer_refresh => click_trace.timer_runs = 0
    /\ last_timer_run.consumed # "off"

====
